---- MODULE Spec2Model ----
(***************************************************************************)
(* Multi-source import and reconciliation engine: spreadsheet import with  *)
(* format detection (sellthrough), the two warehouse imports (netsuite,    *)
(* faire), the syndicated-data import (spins) and the unlinked-fact triage *)
(* (link_item).                                                            *)
(*                                                                         *)
(* log  is the list of the rows the running import has consumed, prev the  *)
(*      record of the previous import (both kept only by the replaying     *)
(*      specification), snap the committed store when the run started.     *)
(* db   is the committed content of the database;                          *)
(* sess is the content seen through the request's ORM session (committed   *)
(*      rows plus the pending and flushed changes of the open transaction; *)
(*      the session autoflushes before every query);                       *)
(* run  is the position of the import handler that is executing;           *)
(* calc is a call of one of the pure functions of the program: the         *)
(*      function, its argument and, once it has returned, its value;       *)
(* linked is the last link that link_item has made;                        *)
(* race is the dimension table and the transactions of two imports that    *)
(*      run at the same time.                                              *)
(***************************************************************************)
EXTENDS Integers, Sequences, FiniteSets, TLC

VARIABLES db, sess, run, upload, snap, log, prev, nruns, nrows, nlinks, calc, linked,
          race

vars == <<db, sess, run, upload, snap, log, prev, nruns, nrows, nlinks, calc, linked, race>>

-----------------------------------------------------------------------------
(* Bounds of the model *)

MaxRows == 2        \* rows read by the imports explored, replays not counted
MaxRuns == 2        \* import runs explored from the initial store
MaxLinks == 1       \* link operations (link_item, create_channel_item) explored
MaxDate == 1        \* valid dates are 1..MaxDate
MaxMeasure == 1     \* valid measure literals are 1..MaxMeasure
MaxFailedRows == 12 \* rows of a source that can fail, for the summaries
FirstYear == 2000   \* the dates parsed are those of FirstYear..LastYear
LastYear == 2040
MaxWeek == 60       \* week numbers of the YYYYWW codes parsed are 0..MaxWeek
MaxLiteral == 3     \* characters of a numeric literal
MaxResolved == 2    \* entities that each of two concurrent imports resolves

-----------------------------------------------------------------------------
(* Program constants *)

BATCH_SIZE == 100
DRY_RUN_ROWS == 10
WALMART_CHANNEL == 2
TARGET_CHANNEL == 1
CVS_CHANNEL == 3
FAIRE_CHANNEL == 11
EREWHON_CHANNEL == 76
FRESH_THYME_CHANNEL == 77
SPROUTS_CHANNEL == 5
FIRST_ROW_NUM == 2
ERRORS_SHOWN == 10

NULL == "NULL"      \* SQL NULL / Python None in a text column
NoId == 0           \* SQL NULL / Python None in an id column
NoChannel == 0      \* get_kehe_channel_id raised
BadLit == 0 - 1     \* a literal that does not parse (date) / 'nan' (number)
Missing == 0        \* an empty field

-----------------------------------------------------------------------------
(* Format detector *)

walmart_headers ==
    { "walmart_calendar_week", "walmart_item_number", "item_name",
      "pos_sales_this_year", "pos_quantity_this_year",
      "dollar_per_store_per_week_or_per_day_this_year",
      "units_per_store_per_week_or_per_day_this_year",
      "traited_store_count_this_year", "repl_instock_percentage_this_year" }

target_headers ==
    { "date", "dpci", "item description", "sales $", "sales u",
      "sales $ pspw", "sales u pspw", "oos %" }

cvs_headers == { "time", "product", "total sales $ wtd", "total units wtd" }

kehe_headers ==
    { "time frame", "geography", "description", "dollars", "units",
      "average weekly dollars per store selling per item",
      "average weekly units per store selling per item" }

\* A raw header is the lower-case text with the way it was written:
\* "lower" as is, "title" in the capitalisation the row processors read,
\* "upper" in capitals, "padded" with surrounding blanks, "bom" with a
\* leading byte-order mark (neither lower() nor strip() removes it).
Forms == {"lower", "title", "upper", "padded", "bom"}

Raw(form, names) == { [text |-> n, form |-> form] : n \in names }

\* h.lower().strip()
LowerStrip(h) ==
    IF h.form = "bom" THEN [text |-> h.text, bom |-> TRUE]
    ELSE [text |-> h.text, bom |-> FALSE]

Plain(names) == { [text |-> n, bom |-> FALSE] : n \in names }

\* Faulty variants of the detector, used to test that the properties below
\* depend on it: one accepts a format as soon as one of its required headers
\* is present, the other tries Target before Walmart.
detect_csv_format_any(headers) ==
    LET headers_lower == { LowerStrip(h) : h \in headers }
    IN  IF Plain(walmart_headers) \cap headers_lower # {} THEN "walmart"
        ELSE IF Plain(target_headers) \cap headers_lower # {} THEN "target"
        ELSE IF Plain(cvs_headers) \cap headers_lower # {} THEN "cvs"
        ELSE IF Plain(kehe_headers) \cap headers_lower # {} THEN "kehe"
        ELSE NULL

detect_csv_format_target_first(headers) ==
    LET headers_lower == { LowerStrip(h) : h \in headers }
    IN  IF Plain(target_headers) \subseteq headers_lower THEN "target"
        ELSE IF Plain(walmart_headers) \subseteq headers_lower THEN "walmart"
        ELSE IF Plain(cvs_headers) \subseteq headers_lower THEN "cvs"
        ELSE IF Plain(kehe_headers) \subseteq headers_lower THEN "kehe"
        ELSE NULL

detect_csv_format(headers) ==
    LET headers_lower == { LowerStrip(h) : h \in headers }
    IN  IF Plain(walmart_headers) \subseteq headers_lower THEN "walmart"
        ELSE IF Plain(target_headers) \subseteq headers_lower THEN "target"
        ELSE IF Plain(cvs_headers) \subseteq headers_lower THEN "cvs"
        ELSE IF Plain(kehe_headers) \subseteq headers_lower THEN "kehe"
        ELSE NULL

Required(fmt) ==
    CASE fmt = "walmart" -> walmart_headers
      [] fmt = "target" -> target_headers
      [] fmt = "cvs" -> cvs_headers
      [] fmt = "kehe" -> kehe_headers

Formats == {"walmart", "target", "cvs", "kehe"}

\* The spelling of the keys a row processor reads with row.get(...)
KeyForm(fmt) == IF fmt = "walmart" THEN "lower" ELSE "title"

\* The header sets offered to the upload: each schema complete, each schema
\* with one required column missing, two schemas in one file, extra columns.
ColumnSets ==
    { Required(f) : f \in Formats }
    \cup { Required(f) \ {c} : <<f, c>> \in
             UNION { { <<g, d>> : d \in Required(g) } : g \in Formats } }
    \cup { Required(f) \cup Required(g) : <<f, g>> \in Formats \X Formats }
    \cup { Required(f) \cup {"comment"} : f \in Formats }
    \cup { {"comment"} }

HeaderSets ==
    { Raw(form, cs) : <<form, cs>> \in {"lower", "title"} \X ColumnSets }
    \cup { Raw(form, Required(f)) : <<form, f>> \in {"upper", "padded", "bom"} \X Formats }

\* The files of the four providers as they are exported, the same files with
\* the header row in capitals, and a file of another kind
ProviderHeaderSets ==
    { Raw(KeyForm(f), Required(f)) : f \in Formats }
    \cup { Raw("upper", Required(f)) : f \in Formats }
    \cup { Raw("title", {"comment"}) }

-----------------------------------------------------------------------------
(* The store *)

Channels == { TARGET_CHANNEL, WALMART_CHANNEL, CVS_CHANNEL, SPROUTS_CHANNEL,
              FAIRE_CHANNEL, EREWHON_CHANNEL }

InitBrands ==
    { [id |-> 1, name |-> "B1", code |-> "K1"],
      [id |-> 2, name |-> "B2", code |-> "K2"] }

InitItems ==
    { [id |-> 1, code |-> "a", name |-> "item a", brand |-> 1],
      [id |-> 2, code |-> "x", name |-> NULL, brand |-> 2] }

InitChannelItems ==
    { [channel |-> WALMART_CHANNEL, item |-> 2, code |-> "b", name |-> "n"] }

InitCodes ==
    { [code |-> "R1", channel |-> SPROUTS_CHANNEL, customer |-> NoId] }

\* Facts left by earlier imports (measure 0): a linked Walmart fact, an
\* unlinked CVS fact, a Netsuite fact and a Faire fact.
InitFacts ==
    { [ id |-> 1, date |-> 1, brand |-> 2, item |-> 2, channel |-> WALMART_CHANNEL,
        customer |-> NoId, rev |-> 0, units |-> 0, code |-> "b" ],
      [ id |-> 2, date |-> 1, brand |-> NoId, item |-> NoId, channel |-> CVS_CHANNEL,
        customer |-> NoId, rev |-> 0, units |-> 0, code |-> "c" ] }

InitNetsuiteFacts ==
    { [ id |-> 1, date |-> 1, brand |-> 1, item |-> 1, channel |-> SPROUTS_CHANNEL,
        customer |-> NoId, rev |-> 0, units |-> 0, rcode |-> "R1" ] }

InitFaireFacts ==
    { [ id |-> 1, date |-> 1, brand |-> 1, item |-> 1, customer |-> NoId,
        rev |-> 0, units |-> 0 ] }

\* The syndicated-data tables: one channel, brand and item and one weekly
\* fact left by an earlier import (measure 0)
InitSpinsChannels == { [id |-> 1, name |-> "G"] }

InitSpinsBrands == { [id |-> 1, name |-> "SB"] }

InitSpinsItems == { [id |-> 1, upc |-> "u", name |-> "d"] }

InitSpinsData ==
    { [ id |-> 1, week |-> 1, channel |-> 1, brand |-> 1, item |-> 1, units |-> 0 ] }

InitStore ==
    [ channels |-> Channels,
      brands |-> InitBrands,
      items |-> InitItems,
      citems |-> InitChannelItems,
      customers |-> {},
      facts |-> InitFacts,
      nscodes |-> InitCodes,
      nsfacts |-> InitNetsuiteFacts,
      ffacts |-> InitFaireFacts,
      spins_channels |-> InitSpinsChannels,
      spins_brands |-> InitSpinsBrands,
      spins_items |-> InitSpinsItems,
      spins_data |-> InitSpinsData,
      errors |-> {} ]

NewId(S) == CHOOSE n \in 1..(Cardinality(S) + 1) : \A r \in S : r.id # n

Results0 ==
    [processed |-> 0, created |-> 0, updated |-> 0, skipped |-> 0, errors |-> <<>>]

NoRun ==
    [ kind |-> "idle", fmt |-> NULL, dry |-> FALSE, readable |-> TRUE, n |-> 0,
      res |-> Results0, phase |-> "idle", rec |-> FALSE, replay |-> FALSE,
      attempts |-> 0, failure |-> NULL, raised |-> FALSE,
      inactive |-> FALSE, refused |-> 0, aborted |-> FALSE ]

NoUpload == [headers |-> {}, verdict |-> NULL]

NoCalc == [fn |-> NULL, arg |-> NULL, val |-> NULL, done |-> FALSE]

\* Two imports, each in its own session and transaction, none begun
NoTx == [pc |-> "ready", want |-> NULL, pending |-> {}, n |-> 0, failed |-> FALSE]

NoRace == [rows |-> {}, tx |-> [t \in 1..2 |-> NoTx]]

NoLink == [channel |-> NoChannel, code |-> "", item |-> NoId]

NoPrev ==
    [ kind |-> "none", fmt |-> NULL, dry |-> FALSE, log |-> <<>>, res |-> Results0,
      readable |-> TRUE, nfacts |-> 0, replayed |-> FALSE ]

NumFacts(s) == Cardinality(s.facts) + Cardinality(s.nsfacts) + Cardinality(s.ffacts)

\* _save_import_error: the record is added to the session (the warehouse
\* variants also flush it); nothing is committed here
save_import_error(s, import_channel, row_data, error_message, row_number) ==
    [s EXCEPT !.errors = @ \cup
        { [id |-> NewId(s.errors), src |-> import_channel, payload |-> row_data,
           msg |-> error_message, row |-> row_number] }]

-----------------------------------------------------------------------------
(* Spreadsheet rows *)

Codes == {"a", "b", "c"}
Geographies == {"EREWHON MARKETS - TOTAL US", "FRESH THYME MARKET - TOTAL US", "NOWHERE"}

\* The rows offered to a processor: the valid rows, and the rows that differ
\* from a valid row in one faulty field.
BaseRow(fmt) ==
    [ date |-> 1, code |-> "a", m |-> 1,
      name |-> IF fmt \in {"walmart", "target"} THEN "n" ELSE "",
      geo |-> IF fmt = "kehe" THEN "EREWHON MARKETS - TOTAL US" ELSE "" ]

ValidRows(fmt) ==
    { [BaseRow(fmt) EXCEPT !.date = v[1], !.code = v[2], !.m = v[3]] :
        v \in (1..MaxDate) \X Codes \X (1..MaxMeasure) }

FaultyRows(fmt) ==
    { [BaseRow(fmt) EXCEPT !.date = d] : d \in {Missing, BadLit} }
    \cup { [BaseRow(fmt) EXCEPT !.code = ""] }
    \cup { [BaseRow(fmt) EXCEPT !.m = BadLit] }
    \cup IF fmt = "kehe"
         THEN { [BaseRow(fmt) EXCEPT !.geo = g] : g \in Geographies \ {BaseRow(fmt).geo} }
         ELSE {}

CsvRows(fmt) == ValidRows(fmt) \cup FaultyRows(fmt)

\* A resolvable row, an unresolvable row and a row with an invalid date
SampleRows(fmt) ==
    { BaseRow(fmt), [BaseRow(fmt) EXCEPT !.code = "c"], [BaseRow(fmt) EXCEPT !.date = BadLit] }

get_kehe_channel_id(geography) ==
    CASE geography = "EREWHON MARKETS - TOTAL US" -> EREWHON_CHANNEL
      [] geography = "FRESH THYME MARKET - TOTAL US" -> FRESH_THYME_CHANNEL
      [] geography = "SPROUTS FARMERS MARKET - TOTAL US W/O PL" -> SPROUTS_CHANNEL
      [] OTHER -> NoChannel

\* Faulty variant: the alias the item already has on the channel keeps its
\* channel code
find_or_create_channel_item_keeps_code(s, channel_id, channel_code, channel_name) ==
    LET byCode == { ci \in s.citems : ci.channel = channel_id /\ ci.code = channel_code }
        items == { it \in s.items : it.code = channel_code }
    IN  IF byCode # {}
        THEN { [item_id |-> ci.item, citems |-> s.citems] : ci \in byCode }
        ELSE IF items # {}
        THEN { LET existing == { ci \in s.citems : ci.channel = channel_id /\ ci.item = item.id }
               IN  IF existing # {}
                   THEN [ item_id |-> item.id, citems |-> s.citems ]
                   ELSE [ item_id |-> item.id,
                          citems |-> s.citems \cup
                             { [ channel |-> channel_id, item |-> item.id, code |-> channel_code,
                                 name |-> IF channel_name # "" THEN channel_name
                                          ELSE IF item.name # NULL THEN item.name
                                          ELSE channel_code ] } ]
               : item \in items }
        ELSE { [item_id |-> NoId, citems |-> s.citems] }

\* find_or_create_channel_item: the set of possible results (.first() on a
\* query without ORDER BY picks any matching row)
find_or_create_channel_item(s, channel_id, channel_code, channel_name) ==
    LET byCode == { ci \in s.citems : ci.channel = channel_id /\ ci.code = channel_code }
        items == { it \in s.items : it.code = channel_code }
    IN  IF byCode # {}
        THEN { [item_id |-> ci.item, citems |-> s.citems] : ci \in byCode }
        ELSE IF items # {}
        THEN { LET existing == { ci \in s.citems : ci.channel = channel_id /\ ci.item = item.id }
               IN  IF existing # {}
                   THEN [ item_id |-> item.id,
                          citems |-> { IF ci \in existing
                                       THEN [ci EXCEPT !.code = channel_code,
                                                       !.name = IF channel_name # "" THEN channel_name ELSE @]
                                       ELSE ci : ci \in s.citems } ]
                   ELSE [ item_id |-> item.id,
                          citems |-> s.citems \cup
                             { [ channel |-> channel_id, item |-> item.id, code |-> channel_code,
                                 name |-> IF channel_name # "" THEN channel_name
                                          ELSE IF item.name # NULL THEN item.name
                                          ELSE channel_code ] } ]
               : item \in items }
        ELSE { [item_id |-> NoId, citems |-> s.citems] }

\* "if channel_item and channel_name and channel_item.channel_name != channel_name"
RenameChannelItem(citems, channel_id, item_id, channel_name) ==
    { IF ci.channel = channel_id /\ ci.item = item_id /\ channel_name # ""
      THEN [ci EXCEPT !.name = channel_name] ELSE ci : ci \in citems }

\* Faulty variant of the fact lookup: an unset item is compared with
\* "item_id = NULL", which no row satisfies.
ExistingFactsNullCompare(fmt, s, week_date, channel_id, item_id, channel_code) ==
    IF item_id = NoId THEN {}
    ELSE { f \in s.facts : f.date = week_date /\ f.channel = channel_id /\ f.item = item_id
                           /\ f.customer = NoId }

\* The fact lookup of a row processor.  process_cvs_row filters with
\* filter_by(item_id=item_id), which is "item_id IS NULL" for an unresolved
\* item and does not look at channel_code.
ExistingFacts(fmt, s, week_date, channel_id, item_id, channel_code) ==
    IF item_id = NoId /\ fmt # "cvs"
    THEN { f \in s.facts : f.date = week_date /\ f.channel = channel_id /\ f.item = NoId
                           /\ f.customer = NoId /\ f.code = channel_code }
    ELSE { f \in s.facts : f.date = week_date /\ f.channel = channel_id /\ f.item = item_id
                           /\ f.customer = NoId }

\* The except branch of a row processor: the error is appended to the
\* results and added to the session; process_walmart_row and
\* process_target_row then roll the session back.
RollsBack(fmt) == fmt \in {"walmart", "target"}

\* Faulty variant: the failed row is not counted as skipped
RowFailedUncounted(fmt, s, res, row, row_num, msg) ==
    [ sess |-> save_import_error(s, "csv", row, msg, row_num),
      res |-> [res EXCEPT !.errors = Append(@, [row |-> row_num, msg |-> msg])],
      ok |-> FALSE,
      rollback |-> RollsBack(fmt),
      commit |-> FALSE ]

RowFailed(fmt, s, res, row, row_num, msg) ==
    [ sess |-> save_import_error(s, "csv", row, msg, row_num),
      res |-> [res EXCEPT !.errors = Append(@, [row |-> row_num, msg |-> msg]),
                          !.skipped = @ + 1],
      ok |-> FALSE,
      rollback |-> RollsBack(fmt),
      commit |-> FALSE ]

ChannelOf(fmt, geo) ==
    CASE fmt = "walmart" -> WALMART_CHANNEL
      [] fmt = "target" -> TARGET_CHANNEL
      [] fmt = "cvs" -> CVS_CHANNEL
      [] fmt = "kehe" -> get_kehe_channel_id(geo)

\* process_walmart_row, process_target_row, process_cvs_row, process_kehe_row:
\* the set of possible outcomes of one row.  A column whose header is not
\* spelled as the processor reads it yields the default of row.get.
process_row(fmt, readable, s, res, row, row_num) ==
    LET date == IF readable THEN row.date ELSE Missing
        geo == IF readable THEN row.geo ELSE ""
        code == IF readable THEN row.code ELSE ""
        name == IF readable /\ fmt \in {"walmart", "target"} THEN row.name ELSE ""
        m == IF readable THEN row.m ELSE 0
        channel_id == ChannelOf(fmt, geo)
    IN  IF date = Missing THEN { RowFailed(fmt, s, res, row, row_num, "missing date") }
        ELSE IF date = BadLit THEN { RowFailed(fmt, s, res, row, row_num, "invalid date") }
        ELSE IF fmt = "kehe" /\ geo = "" THEN { RowFailed(fmt, s, res, row, row_num, "missing geography") }
        ELSE IF channel_id = NoChannel THEN { RowFailed(fmt, s, res, row, row_num, "unknown geography") }
        ELSE IF channel_id \notin s.channels THEN { RowFailed(fmt, s, res, row, row_num, "channel not found") }
        ELSE IF code = "" THEN { RowFailed(fmt, s, res, row, row_num, "missing code") }
        ELSE UNION {
          LET s1 == [s EXCEPT !.citems =
                        IF r.item_id # NoId
                        THEN RenameChannelItem(r.citems, channel_id, r.item_id, name)
                        ELSE r.citems]
              brand_id == IF r.item_id = NoId THEN NoId
                          ELSE (CHOOSE it \in s.items : it.id = r.item_id).brand
              existing == ExistingFacts(fmt, s1, date, channel_id, r.item_id, code)
          IN  IF m = BadLit THEN { RowFailed(fmt, s1, res, row, row_num, "invalid number") }
              ELSE IF existing # {}
              THEN { [ sess |-> [s1 EXCEPT !.facts = (@ \ {e}) \cup
                                   { [e EXCEPT !.rev = m, !.units = m, !.code = code,
                                               !.brand = brand_id] }],
                       res |-> [res EXCEPT !.updated = @ + 1, !.processed = @ + 1],
                       ok |-> TRUE, rollback |-> FALSE, commit |-> FALSE ] : e \in existing }
              ELSE { [ sess |-> [s1 EXCEPT !.facts = @ \cup
                                   { [ id |-> NewId(s1.facts), date |-> date, brand |-> brand_id,
                                       item |-> r.item_id, channel |-> channel_id,
                                       customer |-> NoId, rev |-> m, units |-> m,
                                       code |-> code ] }],
                       res |-> [res EXCEPT !.created = @ + 1, !.processed = @ + 1],
                       ok |-> TRUE, rollback |-> FALSE, commit |-> FALSE ] }
          : r \in find_or_create_channel_item(s, channel_id, code, name) }

-----------------------------------------------------------------------------
(* Warehouse rows *)

BrandTokens == {"B1", "K2", "N"}

NetsuiteBase == [date |-> 1, brand |-> "B1", code |-> "a", rcode |-> "R1", m |-> 1]

NetsuiteValidRows ==
    { [NetsuiteBase EXCEPT !.date = v[1], !.brand = v[2], !.code = v[3],
                           !.rcode = v[4], !.m = v[5]] :
        v \in (1..MaxDate) \X BrandTokens \X {"a", "n"} \X {"", "R1", "R2"} \X (1..MaxMeasure) }

NetsuiteRows ==
    NetsuiteValidRows
    \cup { [NetsuiteBase EXCEPT !.date = d] : d \in {Missing, BadLit} }
    \cup { [NetsuiteBase EXCEPT !.brand = "", !.rcode = "R2"] }
    \cup { [NetsuiteBase EXCEPT !.brand = "N", !.code = ""] }
    \cup { [NetsuiteBase EXCEPT !.code = "n", !.m = BadLit] }

FaireBase == [date |-> 1, brand |-> "B1", code |-> "a", cust |-> NULL, m |-> 1]

FaireValidRows ==
    { [FaireBase EXCEPT !.date = v[1], !.brand = v[2], !.code = v[3],
                        !.cust = v[4], !.m = v[5]] :
        v \in (1..MaxDate) \X {"B1", "K2"} \X {NULL, "a", "f"} \X {NULL, "c1"} \X (1..MaxMeasure) }

FaireRows ==
    FaireValidRows
    \cup { [FaireBase EXCEPT !.date = d] : d \in {Missing, BadLit} }
    \cup { [FaireBase EXCEPT !.brand = b] : b \in {"", "N"} }
    \cup { [FaireBase EXCEPT !.code = "f", !.cust = "c1", !.m = BadLit] }

\* The "continue" branches of the warehouse loops: the error is appended,
\* saved with _save_import_error (add and flush) and the row is skipped.
RowSkipped(s, res, row, row_num, msg) ==
    [ sess |-> save_import_error(s, "snowflake", row, msg, row_num),
      res |-> [res EXCEPT !.errors = Append(@, [row |-> row_num, msg |-> msg]),
                          !.skipped = @ + 1],
      ok |-> FALSE, rollback |-> FALSE, commit |-> FALSE ]

\* Faulty variant of the "except Exception" branch: the commit does not
\* look at dry_run.
RowRaisedCommits(s, res, row, row_num, msg, dry_run) ==
    [ sess |-> save_import_error(s, "snowflake", row, msg, row_num),
      res |-> [res EXCEPT !.errors = Append(@, [row |-> row_num, msg |-> msg]),
                          !.skipped = @ + 1],
      ok |-> FALSE, rollback |-> FALSE, commit |-> TRUE ]

\* The "except Exception" branch of the warehouse loops: the ImportError is
\* added to the session and, unless the run is a dry run, the session is
\* committed at once.
RowRaised(s, res, row, row_num, msg, dry_run) ==
    [ sess |-> save_import_error(s, "snowflake", row, msg, row_num),
      res |-> [res EXCEPT !.errors = Append(@, [row |-> row_num, msg |-> msg]),
                          !.skipped = @ + 1],
      ok |-> FALSE, rollback |-> FALSE, commit |-> ~dry_run ]

\* Brand.query.filter_by(name=...).first(), then filter_by(code=...).first()
BrandByNameThenCode(s, token) ==
    LET byName == { b \in s.brands : b.name = token }
        byCode == { b \in s.brands : b.code = token }
    IN  IF byName # {} THEN byName ELSE byCode

\* all_brands.get(brand_code), then all_brands_by_name.get(brand_code), on
\* the dictionaries loaded before the loop
BrandByCodeThenName(brands, token) ==
    LET byCode == { b \in brands : b.code = token }
        byName == { b \in brands : b.name = token }
    IN  IF byCode # {} THEN byCode ELSE byName

\* One pass of the row loop of _execute_netsuite_import
netsuite_row(s, res, row, row_num, dry_run) ==
    IF row.date = Missing THEN RowSkipped(s, res, row, row_num, "missing date")
    ELSE IF row.date = BadLit THEN RowSkipped(s, res, row, row_num, "invalid date")
    ELSE
    LET mapping == { c \in s.nscodes : c.code = row.rcode }
        newCode == row.rcode # "" /\ mapping = {}
        channel == IF mapping # {} THEN (CHOOSE c \in mapping : TRUE).channel ELSE NoId
        customer_id == IF mapping # {} THEN (CHOOSE c \in mapping : TRUE).customer ELSE NoId
        s1 == IF newCode
              THEN [s EXCEPT !.nscodes = @ \cup
                      { [code |-> row.rcode, channel |-> NoId, customer |-> NoId] }]
              ELSE s
        res1 == IF newCode THEN [res EXCEPT !.created = @ + 1] ELSE res
    IN  IF row.brand = "" THEN RowSkipped(s1, res1, row, row_num, "missing brand")
        ELSE
        LET found == BrandByNameThenCode(s1, row.brand)
            brand == IF found # {} THEN CHOOSE b \in found : TRUE
                     ELSE [id |-> NewId(s1.brands), name |-> row.brand, code |-> row.brand]
            s2 == [s1 EXCEPT !.brands = @ \cup {brand}]
            res2 == IF found = {} THEN [res1 EXCEPT !.created = @ + 1] ELSE res1
        IN  IF row.code = "" THEN RowSkipped(s2, res2, row, row_num, "missing essor_code")
            ELSE
            LET items == { it \in s2.items : it.code = row.code }
                item == IF items # {} THEN CHOOSE it \in items : TRUE
                        ELSE [id |-> NewId(s2.items), code |-> row.code, name |-> NULL,
                              brand |-> brand.id]
                s3 == [s2 EXCEPT !.items = @ \cup {item}]
                res3 == IF items = {} THEN [res2 EXCEPT !.created = @ + 1] ELSE res2
                brand_id == item.brand
                existing == { f \in s3.nsfacts : f.date = row.date /\ f.channel = channel
                                                 /\ f.item = item.id /\ f.customer = customer_id }
            IN  IF row.m = BadLit
                THEN RowRaised(s3, res3, row, row_num, "invalid number", dry_run)
                ELSE IF existing # {}
                THEN LET e == CHOOSE f \in existing : TRUE
                     IN [ sess |-> [s3 EXCEPT !.nsfacts = (@ \ {e}) \cup
                                      { [e EXCEPT !.rev = row.m, !.units = row.m,
                                                  !.brand = brand_id, !.rcode = row.rcode,
                                                  !.channel = channel, !.customer = customer_id] }],
                          res |-> [res3 EXCEPT !.updated = @ + 1, !.processed = @ + 1],
                          ok |-> TRUE, rollback |-> FALSE, commit |-> FALSE ]
                ELSE [ sess |-> [s3 EXCEPT !.nsfacts = @ \cup
                                   { [ id |-> NewId(s3.nsfacts), date |-> row.date,
                                       brand |-> brand_id, item |-> item.id,
                                       channel |-> channel, customer |-> customer_id,
                                       rev |-> row.m, units |-> row.m, rcode |-> row.rcode ] }],
                       res |-> [res3 EXCEPT !.created = @ + 1, !.processed = @ + 1],
                       ok |-> TRUE, rollback |-> FALSE, commit |-> FALSE ]

\* One pass of the row loop of _execute_faire_import; all_brands is the
\* brand table as loaded before the loop
faire_row(s, all_brands, res, row, row_num, dry_run) ==
    IF row.date = Missing THEN RowSkipped(s, res, row, row_num, "missing month")
    ELSE IF row.date = BadLit THEN RowSkipped(s, res, row, row_num, "invalid date")
    ELSE IF row.brand = "" THEN RowSkipped(s, res, row, row_num, "missing brand")
    ELSE
    LET found == BrandByCodeThenName(all_brands, row.brand)
    IN  IF found = {} THEN RowSkipped(s, res, row, row_num, "brand not found")
        ELSE
        LET brand == CHOOSE b \in found : TRUE
            items == IF row.code = NULL THEN {} ELSE { it \in s.items : it.code = row.code }
            item == IF items # {} THEN CHOOSE it \in items : TRUE
                    ELSE [id |-> NewId(s.items), code |-> row.code, name |-> "n",
                          brand |-> brand.id]
            s1 == [s EXCEPT !.items = @ \cup {item}]
            res1 == IF items = {} THEN [res EXCEPT !.created = @ + 1] ELSE res
            customers == IF row.cust = NULL THEN {}
                         ELSE { c \in s1.customers : c.name = row.cust /\ c.channel = FAIRE_CHANNEL }
            newCustomer == row.cust # NULL /\ customers = {}
            customer_id == IF customers # {} THEN (CHOOSE c \in customers : TRUE).id
                           ELSE IF newCustomer THEN NewId(s1.customers)
                           ELSE NoId
            s2 == IF newCustomer
                  THEN [s1 EXCEPT !.customers = @ \cup
                          { [id |-> customer_id, name |-> row.cust, channel |-> FAIRE_CHANNEL,
                             brand |-> brand.id] }]
                  ELSE s1
            res2 == IF newCustomer THEN [res1 EXCEPT !.created = @ + 1] ELSE res1
            existing == { f \in s2.ffacts : f.date = row.date /\ f.item = item.id
                                            /\ f.customer = customer_id }
        IN  IF row.m = BadLit
            THEN RowRaised(s2, res2, row, row_num, "invalid number", dry_run)
            ELSE IF existing # {}
            THEN LET e == CHOOSE f \in existing : TRUE
                 IN [ sess |-> [s2 EXCEPT !.ffacts = (@ \ {e}) \cup
                                  { [e EXCEPT !.rev = row.m, !.units = row.m,
                                              !.brand = brand.id] }],
                      res |-> [res2 EXCEPT !.updated = @ + 1, !.processed = @ + 1],
                      ok |-> TRUE, rollback |-> FALSE, commit |-> FALSE ]
            ELSE [ sess |-> [s2 EXCEPT !.ffacts = @ \cup
                               { [ id |-> NewId(s2.ffacts), date |-> row.date,
                                   brand |-> brand.id, item |-> item.id,
                                   customer |-> customer_id, rev |-> row.m, units |-> row.m ] }],
                   res |-> [res2 EXCEPT !.created = @ + 1, !.processed = @ + 1],
                   ok |-> TRUE, rollback |-> FALSE, commit |-> FALSE ]

-----------------------------------------------------------------------------
(* Syndicated-data rows *)

SpinsBase == [week |-> 1, geo |-> "G", brand |-> "SB", upc |-> "u", desc |-> "d", m |-> 1]

SpinsValidRows ==
    { [SpinsBase EXCEPT !.week = v[1], !.brand = v[2], !.upc = v[3], !.m = v[4]] :
        v \in (1..MaxDate) \X {"SB", "SC"} \X {"u", "v"} \X (1..MaxMeasure) }
    \cup { [SpinsBase EXCEPT !.desc = "e"] }

\* The faulty rows: no TIME FRAME, a TIME FRAME without a date, no
\* GEOGRAPHY, no BRAND, no UPC, and a Units literal such as '1.0e999'
\* (_parse_number returns float infinity, int() of it raises)
SpinsRows ==
    SpinsValidRows
    \cup { [SpinsBase EXCEPT !.week = d] : d \in {Missing, BadLit} }
    \cup { [SpinsBase EXCEPT !.geo = ""] }
    \cup { [SpinsBase EXCEPT !.geo = "H", !.brand = ""] }
    \cup { [SpinsBase EXCEPT !.brand = "SC", !.upc = ""] }
    \cup { [SpinsBase EXCEPT !.upc = "v", !.m = BadLit] }

\* The "continue" branches of the spins loop: as in the warehouse loops,
\* with the ImportError saved under import_channel 'csv'
SpinsRowSkipped(s, res, row, row_num, msg) ==
    [ RowSkipped(s, res, row, row_num, msg) EXCEPT
        !.sess = save_import_error(s, "csv", row, msg, row_num) ]

\* The "except Exception" branch of the spins loop: as in the warehouse
\* loops, with the ImportError saved under import_channel 'csv'
SpinsRowRaised(s, res, row, row_num, msg, dry_run) ==
    [ RowRaised(s, res, row, row_num, msg, dry_run) EXCEPT
        !.sess = save_import_error(s, "csv", row, msg, row_num) ]

\* One pass of the row loop of the spins import_data
spins_row(s, res, row, row_num, dry_run) ==
    IF row.week = Missing THEN SpinsRowSkipped(s, res, row, row_num, "missing time frame")
    ELSE IF row.week = BadLit THEN SpinsRowSkipped(s, res, row, row_num, "invalid time frame")
    ELSE IF row.geo = "" THEN SpinsRowSkipped(s, res, row, row_num, "missing geography")
    ELSE
    LET channels == { c \in s.spins_channels : c.name = row.geo }
        channel == IF channels # {} THEN CHOOSE c \in channels : TRUE
                   ELSE [id |-> NewId(s.spins_channels), name |-> row.geo]
        s1 == [s EXCEPT !.spins_channels = @ \cup {channel}]
        res1 == IF channels = {} THEN [res EXCEPT !.created = @ + 1] ELSE res
    IN  IF row.brand = "" THEN SpinsRowSkipped(s1, res1, row, row_num, "missing brand")
        ELSE
        LET brands == { b \in s1.spins_brands : b.name = row.brand }
            brand == IF brands # {} THEN CHOOSE b \in brands : TRUE
                     ELSE [id |-> NewId(s1.spins_brands), name |-> row.brand]
            s2 == [s1 EXCEPT !.spins_brands = @ \cup {brand}]
            res2 == IF brands = {} THEN [res1 EXCEPT !.created = @ + 1] ELSE res1
        IN  IF row.upc = "" THEN SpinsRowSkipped(s2, res2, row, row_num, "missing upc")
            ELSE
            LET items == { it \in s2.spins_items : it.upc = row.upc }
                found == CHOOSE it \in items : TRUE
                item == IF items = {}
                        THEN [ id |-> NewId(s2.spins_items), upc |-> row.upc,
                               name |-> IF row.desc = "" THEN "Unknown" ELSE row.desc ]
                        ELSE IF row.desc # "" /\ found.name # row.desc
                        THEN [found EXCEPT !.name = row.desc]
                        ELSE found
                s3 == [s2 EXCEPT !.spins_items = { it \in @ : it.id # item.id } \cup {item}]
                res3 == IF items = {} THEN [res2 EXCEPT !.created = @ + 1] ELSE res2
                existing == { f \in s3.spins_data :
                                 /\ f.week = row.week /\ f.channel = channel.id
                                 /\ f.brand = brand.id /\ f.item = item.id }
            IN  IF row.m = BadLit
                THEN SpinsRowRaised(s3, res3, row, row_num, "cannot convert float infinity", dry_run)
                ELSE IF existing # {}
                THEN LET e == CHOOSE f \in existing : TRUE
                     IN [ sess |-> [s3 EXCEPT !.spins_data = (@ \ {e}) \cup
                                      { [e EXCEPT !.units = row.m] }],
                          res |-> [res3 EXCEPT !.updated = @ + 1, !.processed = @ + 1],
                          ok |-> TRUE, rollback |-> FALSE, commit |-> FALSE ]
                ELSE [ sess |-> [s3 EXCEPT !.spins_data = @ \cup
                                   { [ id |-> NewId(s3.spins_data), week |-> row.week,
                                       channel |-> channel.id, brand |-> brand.id,
                                       item |-> item.id, units |-> row.m ] }],
                       res |-> [res3 EXCEPT !.created = @ + 1, !.processed = @ + 1],
                       ok |-> TRUE, rollback |-> FALSE, commit |-> FALSE ]

-----------------------------------------------------------------------------
(* The import handlers *)

\* The rows the loop can take next: any row of the source being read, or,
\* when a source is imported a second time, the row the first import read in
\* that position.  A dry run stops after the first 10 rows.
CanRead ==
    /\ run.phase = "rows"
    /\ IF run.replay THEN run.n < Len(prev.log) ELSE nrows < MaxRows
    /\ run.dry => run.n < DRY_RUN_ROWS

NextRows(rows) == IF run.replay THEN { prev.log[run.n + 1].row } ELSE rows

AtEnd ==
    /\ run.phase = "rows"
    /\ run.replay => run.n = Len(prev.log)

\* The channel code matches no alias of the channel and no internal item code
Unresolvable(s, channel_id, channel_code) ==
    /\ \A ci \in s.citems : ~(ci.channel = channel_id /\ ci.code = channel_code)
    /\ \A it \in s.items : it.code # channel_code

\* The record kept of a row: its outcome, what it added to the counters and
\* whether it was a spreadsheet row processed without an item
Logged(row, out) ==
    IF run.rec
    THEN Append(log, [ row |-> row, ok |-> out.ok,
                       created |-> out.res.created - run.res.created,
                       updated |-> out.res.updated - run.res.updated,
                       unlinked |-> /\ run.kind = "csv"
                                    /\ out.ok
                                    /\ Unresolvable(sess, ChannelOf(run.fmt, row.geo), row.code) ])
    ELSE log

StartRun(kind, fmt, dry_run, readable, record) ==
    [ kind |-> kind, fmt |-> fmt, dry |-> dry_run, readable |-> readable, n |-> 0,
      res |-> Results0, phase |-> "rows", rec |-> record, replay |-> FALSE,
      attempts |-> IF kind \in {"netsuite", "faire"} THEN 1 ELSE 0,
      failure |-> NULL, raised |-> FALSE,
      inactive |-> FALSE, refused |-> 0, aborted |-> FALSE ]

\* sellthrough import_data: the upload is read and its header row
\* classified.  An unrecognized header set ends the request before any row
\* is read.
UploadCsv(record, header_sets) ==
    /\ run.kind = "idle"
    /\ nruns < MaxRuns
    /\ \E headers \in header_sets, dry_run \in BOOLEAN :
         LET csv_format == detect_csv_format(headers)
         IN  /\ upload' = [headers |-> headers, verdict |-> csv_format]
             /\ run' = IF csv_format = NULL
                       THEN [NoRun EXCEPT !.kind = "csv", !.dry = dry_run, !.phase = "done"]
                       ELSE StartRun("csv", csv_format, dry_run,
                                     Raw(KeyForm(csv_format), Required(csv_format))
                                        \subseteq headers, record)
    /\ snap' = db
    /\ sess' = db
    /\ nruns' = nruns + 1
    /\ log' = <<>>
    /\ UNCHANGED <<db, prev, nrows, nlinks, calc, linked, race>>

\* sellthrough import_data: one pass of the row loop, over a file whose rows
\* are among rows
CsvRowOf(rows) ==
    /\ run.kind = "csv"
    /\ CanRead
    /\ ~run.inactive
    /\ \E row \in NextRows(rows) :
       \E out \in process_row(run.fmt, run.readable, sess, run.res, row, run.n + FIRST_ROW_NUM) :
         /\ sess' = IF out.rollback THEN db ELSE out.sess
         /\ run' = [run EXCEPT !.n = @ + 1, !.res = out.res]
         /\ log' = Logged(row, out)
    /\ nrows' = IF run.replay THEN nrows ELSE nrows + 1
    /\ upload' = NoUpload
    /\ UNCHANGED <<db, snap, prev, nruns, nlinks, calc, linked, race>>

CsvRow == CsvRowOf(CsvRows(run.fmt))

CsvSampleRow == CsvRowOf(SampleRows(run.fmt))

\* sellthrough import_data after the loop: rollback in a dry run, commit
\* otherwise
CsvFinish ==
    /\ run.kind = "csv"
    /\ AtEnd
    /\ run.dry \/ ~run.inactive
    /\ IF run.dry
       THEN /\ sess' = db
            /\ UNCHANGED db
       ELSE /\ db' = sess
            /\ UNCHANGED sess
    /\ run' = [run EXCEPT !.phase = "done"]
    /\ upload' = NoUpload
    /\ UNCHANGED <<snap, log, prev, nruns, nrows, nlinks, calc, linked, race>>

\* netsuite import_data / import_cron and faire import_data call
\* _execute_netsuite_import / _execute_faire_import
StartWarehouse(kind, record) ==
    /\ run.kind = "idle"
    /\ nruns < MaxRuns
    /\ \E dry_run \in BOOLEAN :
         run' = IF kind = "faire" /\ FAIRE_CHANNEL \notin db.channels
                THEN [NoRun EXCEPT !.kind = kind, !.dry = dry_run, !.phase = "done",
                                   !.res.errors = <<[row |-> 0, msg |-> "no faire channel"]>>]
                ELSE StartRun(kind, kind, dry_run, TRUE, record)
    /\ snap' = db
    /\ sess' = db
    /\ nruns' = nruns + 1
    /\ log' = <<>>
    /\ upload' = NoUpload
    /\ UNCHANGED <<db, prev, nrows, nlinks, calc, linked, race>>

\* What the warehouse can answer to the connection and to the query, and the
\* answers that are transient failures
Failures == {"rate limit", "server error", "gateway timeout", "system busy", "bad credentials"}

Transient == Failures \ {"bad credentials"}

\* Faulty variant: the failure is reported in the results that are returned
execute_import_swallows(kind, dry_run, failure) ==
    [NoRun EXCEPT !.kind = kind, !.dry = dry_run, !.phase = "done", !.attempts = 1,
                  !.failure = failure,
                  !.res.errors = <<[row |-> 0, msg |-> failure]>>]

\* _execute_netsuite_import / _execute_faire_import when
\* get_snowflake_connection, cursor.execute or cursor.fetchall raises: the
\* call is made once, outside any try, and the exception reaches the caller
execute_import_raises(kind, dry_run, failure) ==
    [NoRun EXCEPT !.kind = kind, !.dry = dry_run, !.phase = "done", !.attempts = 1,
                  !.failure = failure, !.raised = TRUE]

\* netsuite import_data / import_cron and faire import_data when the
\* warehouse does not answer the connection or the query
WarehouseUnavailable ==
    /\ run.kind = "idle"
    /\ nruns < MaxRuns
    /\ \E kind \in {"netsuite", "faire"}, dry_run \in BOOLEAN, failure \in Failures :
         run' = execute_import_raises(kind, dry_run, failure)
    /\ snap' = db
    /\ sess' = db
    /\ nruns' = nruns + 1
    /\ log' = <<>>
    /\ upload' = NoUpload
    /\ UNCHANGED <<db, prev, nrows, nlinks, calc, linked, race>>

\* A batch of BATCH_SIZE rows is complete after this row
BatchEnds == (run.n + 1) % BATCH_SIZE = 0

WarehouseStep(row, out) ==
    /\ sess' = out.sess
    /\ db' = IF out.commit \/ (BatchEnds /\ ~run.dry) THEN out.sess ELSE db
    /\ run' = [run EXCEPT !.n = @ + 1, !.res = out.res]
    /\ log' = Logged(row, out)
    /\ nrows' = IF run.replay THEN nrows ELSE nrows + 1
    /\ UNCHANGED <<upload, snap, prev, nruns, nlinks, calc, linked, race>>

\* _execute_netsuite_import: one pass of the row loop, over a warehouse
\* whose rows are among rows
NetsuiteRowOf(rows) ==
    /\ run.kind = "netsuite"
    /\ CanRead
    /\ ~run.inactive
    /\ \E row \in NextRows(rows) :
         WarehouseStep(row, netsuite_row(sess, run.res, row, run.n + 1, run.dry))

NetsuiteRow == NetsuiteRowOf(NetsuiteRows)

\* Rows of products that the spreadsheets of the retailers name by the same
\* code
NetsuiteSampleRow ==
    NetsuiteRowOf({ [NetsuiteBase EXCEPT !.code = c] : c \in {"a", "c"} })

\* _execute_faire_import: one pass of the row loop
FaireRow ==
    /\ run.kind = "faire"
    /\ CanRead
    /\ ~run.inactive
    /\ \E row \in NextRows(FaireRows) :
         WarehouseStep(row, faire_row(sess, snap.brands, run.res, row, run.n + 1, run.dry))

\* The warehouse loops after the last row: the last, incomplete batch is
\* committed unless the run is a dry run
WarehouseFinish ==
    /\ run.kind \in {"netsuite", "faire"}
    /\ AtEnd
    /\ db' = IF ~run.dry /\ run.n % BATCH_SIZE # 0 THEN sess ELSE db
    /\ run' = [run EXCEPT !.phase = "done"]
    /\ UNCHANGED <<sess, upload, snap, log, prev, nruns, nrows, nlinks, calc, linked, race>>

(* Writes that the database refuses *)

\* A flush that raises (a constraint violation, a lost connection) undoes the
\* transaction: the session is back at the committed store, the objects
\* added since are expunged, and the session refuses every query, flush and
\* commit with PendingRollbackError until rollback() is called.  One write
\* is refused per run.
CanRefuse ==
    /\ CanRead
    /\ ~run.inactive
    /\ run.refused = 0

\* A valid row of each source
ValidRowOf(kind, fmt) ==
    CASE kind = "csv" -> BaseRow(fmt)
      [] kind = "netsuite" -> NetsuiteBase
      [] kind = "faire" -> FaireBase

\* sellthrough import_data: a pass of the row loop in which the flush of a
\* valid row raises.  The except branch of the processor adds the
\* ImportError; only process_walmart_row and process_target_row call
\* rollback().
CsvRowRefused ==
    /\ run.kind = "csv"
    /\ CanRefuse
    /\ \E row \in NextRows({ValidRowOf("csv", run.fmt)}) :
         LET out == RowFailed(run.fmt, db, run.res, row, run.n + FIRST_ROW_NUM, "refused")
         IN  /\ sess' = IF out.rollback THEN db ELSE out.sess
             /\ run' = [run EXCEPT !.n = @ + 1, !.res = out.res,
                                   !.inactive = ~out.rollback, !.refused = run.n + 1]
             /\ log' = Logged(row, out)
    /\ nrows' = IF run.replay THEN nrows ELSE nrows + 1
    /\ upload' = NoUpload
    /\ UNCHANGED <<db, snap, prev, nruns, nlinks, calc, linked, race>>

\* A pass of a row loop over a session that awaits rollback(): the first
\* query of the row raises, and the except branch adds an ImportError that
\* no commit will take (process_cvs_row, process_kehe_row, and the warehouse
\* loops in a dry run)
RowPendingRollback ==
    /\ run.kind \in {"csv", "netsuite", "faire"}
    /\ CanRead
    /\ run.inactive
    /\ \E row \in NextRows({ValidRowOf(run.kind, run.fmt)}) :
         LET row_num == IF run.kind = "csv" THEN run.n + FIRST_ROW_NUM ELSE run.n + 1
             out == IF run.kind = "csv"
                    THEN RowFailed(run.fmt, sess, run.res, row, row_num, "pending rollback")
                    ELSE RowRaised(sess, run.res, row, row_num, "pending rollback", run.dry)
         IN  /\ sess' = out.sess
             /\ run' = [run EXCEPT !.n = @ + 1, !.res = out.res]
             /\ log' = Logged(row, out)
    /\ nrows' = IF run.replay THEN nrows ELSE nrows + 1
    /\ upload' = NoUpload
    /\ UNCHANGED <<db, snap, prev, nruns, nlinks, calc, linked, race>>

\* sellthrough import_data after the loop, over a session that awaits
\* rollback(): commit() raises, the handler's except branch rolls back and
\* answers with the exception
CsvCommitRefused ==
    /\ run.kind = "csv"
    /\ AtEnd
    /\ ~run.dry
    /\ run.inactive
    /\ sess' = db
    /\ run' = [run EXCEPT !.phase = "done", !.raised = TRUE, !.inactive = FALSE]
    /\ upload' = NoUpload
    /\ UNCHANGED <<db, snap, log, prev, nruns, nrows, nlinks, calc, linked, race>>

\* _execute_netsuite_import / _execute_faire_import: a pass of the row loop
\* in which the flush of a valid row raises.  In a live run the commit() of
\* the except branch raises and is swallowed, then begin() raises "A
\* transaction is already begun" inside the except branch: the outer except
\* rolls back, appends its own error and returns the results, the rows that
\* follow unread.  In a dry run neither is called and the loop goes on.
WarehouseRowRefused ==
    /\ run.kind \in {"netsuite", "faire"}
    /\ CanRefuse
    /\ \E row \in NextRows({ValidRowOf(run.kind, run.fmt)}) :
         LET out == RowRaised(db, run.res, row, run.n + 1, "refused", TRUE)
         IN  /\ sess' = IF run.dry THEN out.sess ELSE db
             /\ run' = IF run.dry
                       THEN [run EXCEPT !.n = @ + 1, !.res = out.res,
                                        !.inactive = TRUE, !.refused = run.n + 1]
                       ELSE [run EXCEPT !.n = @ + 1,
                                        !.res = [out.res EXCEPT !.errors =
                                                   Append(@, [row |-> 0, msg |-> "refused"])],
                                        !.refused = run.n + 1,
                                        !.aborted = TRUE, !.phase = "done"]
             /\ log' = Logged(row, out)
    /\ nrows' = IF run.replay THEN nrows ELSE nrows + 1
    /\ UNCHANGED <<db, upload, snap, prev, nruns, nlinks, calc, linked, race>>

-----------------------------------------------------------------------------
(* Syndicated-data imports *)

\* spins import_data: the upload is read; its header row is not classified
SpinsUpload ==
    /\ run.kind = "idle"
    /\ nruns < MaxRuns
    /\ \E dry_run \in BOOLEAN :
         run' = StartRun("spins", "spins", dry_run, TRUE, FALSE)
    /\ snap' = db
    /\ sess' = db
    /\ nruns' = nruns + 1
    /\ log' = <<>>
    /\ upload' = NoUpload
    /\ UNCHANGED <<db, prev, nrows, nlinks, calc, linked, race>>

\* spins import_data: one pass of the row loop
SpinsRow ==
    /\ run.kind = "spins"
    /\ CanRead
    /\ \E row \in NextRows(SpinsRows) :
         LET out == spins_row(sess, run.res, row, run.n + FIRST_ROW_NUM, run.dry)
         IN  /\ sess' = out.sess
             /\ db' = IF out.commit THEN out.sess ELSE db
             /\ run' = [run EXCEPT !.n = @ + 1, !.res = out.res]
             /\ log' = Logged(row, out)
    /\ nrows' = IF run.replay THEN nrows ELSE nrows + 1
    /\ UNCHANGED <<upload, snap, prev, nruns, nlinks, calc, linked, race>>

\* spins import_data after the loop: rollback in a dry run, commit
\* otherwise
SpinsFinish ==
    /\ run.kind = "spins"
    /\ AtEnd
    /\ IF run.dry
       THEN /\ sess' = db
            /\ UNCHANGED db
       ELSE /\ db' = sess
            /\ UNCHANGED sess
    /\ run' = [run EXCEPT !.phase = "done"]
    /\ UNCHANGED <<upload, snap, log, prev, nruns, nrows, nlinks, calc, linked, race>>

\* The first ERRORS_SHOWN elements of a list (errors[:10])
FirstErrors(errors) ==
    SubSeq(errors, 1, IF Len(errors) < ERRORS_SHOWN THEN Len(errors) ELSE ERRORS_SHOWN)

\* Faulty variant: the whole list of errors is returned
import_cron_response_all(raised, results) ==
    [ status |-> "success", code |-> 200, processed |-> results.processed,
      created |-> results.created, updated |-> results.updated,
      skipped |-> results.skipped, errors_count |-> Len(results.errors),
      errors |-> results.errors ]

\* netsuite import_cron: the JSON answer of the scheduled job, given the
\* results of _execute_netsuite_import or the fact that it raised
import_cron_response(raised, results) ==
    IF raised
    THEN [ status |-> "error", code |-> 500, processed |-> 0, created |-> 0,
           updated |-> 0, skipped |-> 0, errors_count |-> 0, errors |-> <<>> ]
    ELSE [ status |-> "success", code |-> 200, processed |-> results.processed,
           created |-> results.created, updated |-> results.updated,
           skipped |-> results.skipped, errors_count |-> Len(results.errors),
           errors |-> FirstErrors(results.errors) ]

\* netsuite and faire import_data: the category of the message flashed and
\* the results handed to the page
import_data_response(raised, results) ==
    IF raised
    THEN [ flash |-> "error", results |-> NULL ]
    ELSE [ flash |-> IF results.errors = <<>> THEN "success" ELSE "info",
           results |-> results ]

\* The page of an import (sellthrough, netsuite, faire import.html): the
\* count is the one flashed by import_data, the list is the first errors of
\* the results handed to the page
import_page(results) ==
    [ errors_count |-> Len(results.errors), errors |-> FirstErrors(results.errors) ]

\* The response is returned and the request's session is removed, which
\* rolls back whatever it still holds
Return ==
    /\ run.kind # "idle"
    /\ run.phase = "done"
    /\ run' = NoRun
    /\ sess' = db
    /\ prev' = IF run.rec /\ ~run.replay
               THEN [ kind |-> run.kind, fmt |-> run.fmt, dry |-> run.dry,
                      readable |-> run.readable, log |-> log, res |-> run.res,
                      nfacts |-> NumFacts(db), replayed |-> FALSE ]
               ELSE prev
    /\ log' = <<>>
    /\ upload' = NoUpload
    /\ UNCHANGED <<db, snap, nruns, nrows, nlinks, calc, linked, race>>

\* The source of the previous live import is imported again
Replay ==
    /\ run.kind = "idle"
    /\ prev.kind # "none"
    /\ ~prev.replayed
    /\ ~prev.dry
    /\ run' = [StartRun(prev.kind, prev.fmt, FALSE, prev.readable, TRUE) EXCEPT !.replay = TRUE]
    /\ prev' = [prev EXCEPT !.replayed = TRUE]
    /\ snap' = db
    /\ sess' = db
    /\ log' = <<>>
    /\ upload' = NoUpload
    /\ UNCHANGED <<db, nruns, nrows, nlinks, calc, linked, race>>

-----------------------------------------------------------------------------
(* Unlinked-fact triage *)

\* sellthrough link_item
link_item ==
    /\ run.kind = "idle"
    /\ nlinks < MaxLinks
    /\ \E channel_code \in Codes, item \in db.items, channel_id \in db.channels :
         LET entries == { f \in db.facts : f.code = channel_code /\ f.channel = channel_id
                                           /\ f.item = NoId /\ f.brand = NoId }
             existing == { ci \in db.citems : ci.channel = channel_id /\ ci.item = item.id }
             channel_name == IF item.name # NULL THEN item.name
                             ELSE IF item.code # NULL THEN item.code
                             ELSE channel_code
         IN  /\ entries # {}
             /\ linked' = [channel |-> channel_id, code |-> channel_code, item |-> item.id]
             /\ db' = [db EXCEPT
                  !.citems = IF existing = {}
                             THEN @ \cup { [ channel |-> channel_id, item |-> item.id,
                                             code |-> channel_code, name |-> channel_name ] }
                             ELSE { IF ci \in existing
                                    THEN [ci EXCEPT !.code = channel_code, !.name = channel_name]
                                    ELSE ci : ci \in @ },
                  !.facts = { IF f \in entries
                              THEN [f EXCEPT !.item = item.id, !.brand = item.brand]
                              ELSE f : f \in @ }]
    /\ sess' = db'
    /\ nlinks' = nlinks + 1
    /\ UNCHANGED <<run, upload, snap, log, prev, nruns, nrows, calc, race>>

\* core create_channel_item: an administrator gives an item an alias on a
\* channel; refused when the item already has one on that channel
create_channel_item ==
    /\ run.kind = "idle"
    /\ nlinks < MaxLinks
    /\ \E channel_id \in db.channels, item \in db.items, channel_code \in Codes :
         LET existing == { ci \in db.citems : ci.channel = channel_id /\ ci.item = item.id }
         IN  /\ existing = {}
             /\ db' = [db EXCEPT !.citems = @ \cup
                         { [ channel |-> channel_id, item |-> item.id,
                             code |-> channel_code, name |-> "n" ] }]
    /\ sess' = db'
    /\ nlinks' = nlinks + 1
    /\ UNCHANGED <<run, upload, snap, log, prev, nruns, nrows, calc, linked, race>>

-----------------------------------------------------------------------------
(* Two imports at the same time *)

\* The dimension entities that both imports can name, by table and natural
\* key: a brand (name and code), an item (essor_code), a customer (name, on
\* the Faire channel)
Entities == {"brand N", "item n", "customer c1"}

\* Faulty variant: the table has no unique constraint
unique_violation_never(rows, entity) == FALSE

\* unique=True on Brand.name, Brand.code and Item.essor_code and
\* uq_customer_channel: a committed row with the natural key refuses the
\* insert
unique_violation(rows, entity) == \E r \in rows : r.entity = entity

\* The lookup of the row loop (Brand.query.filter_by(name=...).first(),
\* Item.query.filter_by(essor_code=...).first(), ...): the transaction sees
\* the committed rows and its own
RaceLookup(t) ==
    /\ race.tx[t].pc = "ready"
    /\ race.tx[t].n < MaxResolved
    /\ \E entity \in Entities :
         LET found == \/ \E r \in race.rows : r.entity = entity
                      \/ entity \in race.tx[t].pending
         IN  race' = [race EXCEPT !.tx[t] =
                        IF found THEN [@ EXCEPT !.n = @ + 1]
                        ELSE [@ EXCEPT !.pc = "missing", !.want = entity]]
    /\ UNCHANGED <<db, sess, run, upload, snap, log, prev, nruns, nrows, nlinks, calc, linked>>

\* db.session.add and flush of the entity that the lookup did not find.  The
\* INSERT waits while the other transaction holds an uncommitted row with
\* the same key; a committed row with the key makes it raise IntegrityError,
\* which undoes the transaction.
RaceInsert(t) ==
    /\ race.tx[t].pc = "missing"
    /\ \A u \in (1..2) \ {t} : race.tx[t].want \notin race.tx[u].pending
    /\ race' = [race EXCEPT !.tx[t] =
                  IF unique_violation(race.rows, race.tx[t].want)
                  THEN [@ EXCEPT !.pc = "ended", !.pending = {}, !.failed = TRUE]
                  ELSE [@ EXCEPT !.pc = "ready", !.pending = @ \cup {race.tx[t].want},
                                 !.want = NULL, !.n = @ + 1]]
    /\ UNCHANGED <<db, sess, run, upload, snap, log, prev, nruns, nrows, nlinks, calc, linked>>

\* db.session.commit() of a batch
RaceCommit(t) ==
    /\ race.tx[t].pc = "ready"
    /\ race.tx[t].pending # {}
    /\ race' = [race EXCEPT
                  !.rows = @ \cup { [entity |-> e, by |-> t] : e \in race.tx[t].pending },
                  !.tx[t].pending = {}]
    /\ UNCHANGED <<db, sess, run, upload, snap, log, prev, nruns, nrows, nlinks, calc, linked>>

\* The end of a dry run: the session is removed with the request, which
\* rolls back
RaceRollback(t) ==
    /\ race.tx[t].pc = "ready"
    /\ race.tx[t].pending # {}
    /\ race' = [race EXCEPT !.tx[t].pending = {}, !.tx[t].pc = "ended"]
    /\ UNCHANGED <<db, sess, run, upload, snap, log, prev, nruns, nrows, nlinks, calc, linked>>

-----------------------------------------------------------------------------
(* Dates *)

\* A date is its proleptic Gregorian ordinal (date.toordinal(): day 1 is
\* 0001-01-01, a Monday)
IsLeap(y) == (y % 4 = 0) /\ ((y % 100 # 0) \/ (y % 400 = 0))

DaysInMonth(y, m) ==
    CASE m \in {1, 3, 5, 7, 8, 10, 12} -> 31
      [] m \in {4, 6, 9, 11} -> 30
      [] OTHER -> IF IsLeap(y) THEN 29 ELSE 28

DaysBeforeYear(y) ==
    (y - 1) * 365 + ((y - 1) \div 4) - ((y - 1) \div 100) + ((y - 1) \div 400)

RECURSIVE DaysBeforeMonth(_, _)
DaysBeforeMonth(y, m) ==
    IF m = 1 THEN 0 ELSE DaysBeforeMonth(y, m - 1) + DaysInMonth(y, m - 1)

\* datetime(y, m, d).date()
Date(y, m, d) == DaysBeforeYear(y) + DaysBeforeMonth(y, m) + d

\* date.weekday(): 0 is Monday, 6 is Sunday
weekday(date) == (date + 6) % 7

\* What a call gives: a value, or an exception for the caller
Value(v) == [ok |-> TRUE, v |-> v, msg |-> NULL]

Raised(msg) == [ok |-> FALSE, v |-> NULL, msg |-> msg]

\* Faulty variant: week 1 is taken to be the week of January 1st
parse_yyyyww_from_jan1(yyyyww) ==
    LET year == yyyyww \div 100
        week == yyyyww % 100
        jan1 == Date(year, 1, 1)
        week1_monday == jan1 - weekday(jan1)
    IN  Value(week1_monday + 7 * (week - 1))

\* parse_yyyyww_to_monday, for a code of six digits (given as the number
\* they write): the first four are the year, the last two the week
parse_yyyyww_to_monday(yyyyww) ==
    LET year == yyyyww \div 100
        week == yyyyww % 100
        jan4 == Date(year, 1, 4)
        days_to_monday == weekday(jan4) % 7
        week1_monday == jan4 - days_to_monday
        target_monday == week1_monday + 7 * (week - 1)
    IN  Value(target_monday)

-----------------------------------------------------------------------------
(* Numeric literals *)

\* A literal is the sequence of its characters
Chars == {"1", "-", "$", ",", "%", " ", "x"}

RECURSIVE Literals(_)
Literals(n) ==
    IF n = 0 THEN { <<>> }
    ELSE Literals(n - 1) \cup { Append(l, c) : l \in { k \in Literals(n - 1) : Len(k) = n - 1 },
                                               c \in Chars }

\* str.strip(): the spaces at both ends are removed
RECURSIVE strip(_)
strip(s) ==
    IF s = <<>> THEN s
    ELSE IF Head(s) = " " THEN strip(Tail(s))
    ELSE IF s[Len(s)] = " " THEN strip(SubSeq(s, 1, Len(s) - 1))
    ELSE s

\* str.replace(c, '') for every character c of removed
without(s, removed) == SelectSeq(s, LAMBDA c : c \notin removed)

\* The number written by a sequence of digits
RECURSIVE Number(_)
Number(digits) ==
    IF digits = <<>> THEN 0
    ELSE 10 * Number(SubSeq(digits, 1, Len(digits) - 1)) + 1

Digits(s) == s # <<>> /\ \A i \in 1..Len(s) : s[i] = "1"

\* float(s) and Decimal(s) accept, among the sequences of these characters,
\* the digits with at most one sign before them
Numeral(s) == Digits(IF s # <<>> /\ Head(s) = "-" THEN Tail(s) ELSE s)

NumeralValue(s) == IF Head(s) = "-" THEN 0 - Number(Tail(s)) ELSE Number(s)

\* parse_numeric_value
parse_numeric_value(value_str, default) ==
    IF value_str = <<>> THEN Value(default)
    ELSE LET stripped == strip(value_str)
             cleaned == strip(without(stripped, {"$", ",", " "}))
             is_negative == cleaned # <<>> /\ Head(cleaned) = "-"
             unsigned == IF is_negative THEN Tail(cleaned) ELSE cleaned
         IN  IF stripped = <<>> \/ stripped = <<"-">> THEN Value(default)
             ELSE IF Numeral(unsigned)
             THEN Value(IF is_negative THEN 0 - NumeralValue(unsigned)
                        ELSE NumeralValue(unsigned))
             ELSE Value(default)

\* parse_percentage: Decimal() raises decimal.InvalidOperation, which is
\* neither a ValueError nor a TypeError and so reaches the caller
parse_percentage(value_str) ==
    IF value_str = <<>> THEN Value(NULL)
    ELSE LET stripped == strip(value_str)
             cleaned == strip(without(stripped, {"%", " "}))
         IN  IF stripped = <<>> \/ stripped = <<"-">> THEN Value(NULL)
             ELSE IF Numeral(cleaned) THEN Value(NumeralValue(cleaned))
             ELSE Raised("[<class 'decimal.ConversionSyntax'>]")

\* parse_fiscal_week_ending_to_monday, for the literal 'Fiscal Week Ending
\* MM-DD-YYYY' with the given numbers: strptime refuses a day that the month
\* does not have
parse_fiscal_week_ending_to_monday(fiscal) ==
    IF fiscal.month \in 1..12 /\ fiscal.day \in 1..DaysInMonth(fiscal.year, fiscal.month)
    THEN LET week_ending == Date(fiscal.year, fiscal.month, fiscal.day)
             monday == week_ending - 6
         IN  Value(monday)
    ELSE Raised("Invalid 'Fiscal Week Ending' format")

-----------------------------------------------------------------------------
(* The warehouse queries *)

\* The dates of the warehouse rows and of the facts on file that are explored
QueryDates == { Date(2023, 12, 1), Date(2024, 1, 1), Date(2024, 2, 1), Date(2024, 3, 1) }

\* 'all' imports of Faire "start from 2024-01-01"
FAIRE_ALL_SINCE == Date(2024, 1, 1)

\* _get_last_import_date: the latest date of the fact table, None when the
\* table is empty
get_last_import_date(on_file) ==
    IF on_file = {} THEN NULL
    ELSE CHOOSE d \in on_file : \A e \in on_file : e <= d

\* The rows of the warehouse that one execution of the query returns, by
\* their dates
Fetched(warehouse, since) == [queries |-> 1, dates |-> { d \in warehouse : d >= since }]

\* _execute_netsuite_import up to cursor.execute: the date filter is added
\* in incremental mode when a fact is on file
netsuite_query(import_method, on_file, warehouse) ==
    LET last_date == get_last_import_date(on_file)
    IN  IF import_method = "incremental" /\ on_file # {}
        THEN Fetched(warehouse, last_date)
        ELSE [queries |-> 1, dates |-> warehouse]

\* _execute_faire_import up to cursor.execute: the date of the filter of
\* faire.sql is replaced in both modes
faire_query(import_method, on_file, warehouse) ==
    LET last_date == get_last_import_date(on_file)
    IN  IF import_method = "incremental" /\ on_file # {}
        THEN Fetched(warehouse, last_date)
        ELSE Fetched(warehouse, FAIRE_ALL_SINCE)

-----------------------------------------------------------------------------
(* Calls of the pure functions *)

\* No import is running and none has run
Quiet ==
    /\ db = InitStore
    /\ sess = InitStore
    /\ run = NoRun
    /\ upload = NoUpload
    /\ snap = InitStore
    /\ log = <<>>
    /\ prev = NoPrev
    /\ nruns = 0
    /\ nrows = 0
    /\ nlinks = 0
    /\ linked = NoLink
    /\ race = NoRace

Call(fn, arg) == [fn |-> fn, arg |-> arg, val |-> NULL, done |-> FALSE]

\* The function fn returns val
Returns(fn, val) ==
    /\ calc.fn = fn
    /\ ~calc.done
    /\ calc' = [calc EXCEPT !.val = val, !.done = TRUE]
    /\ UNCHANGED <<db, sess, run, upload, snap, log, prev, nruns, nrows, nlinks, linked, race>>

RECURSIVE ErrorsOf(_)
\* results['errors'] of a run whose failed rows are those of S: one message
\* per failed row, appended in the order of the rows
ErrorsOf(S) ==
    IF S = {} THEN <<>>
    ELSE LET r == CHOOSE x \in S : \A y \in S : x <= y
         IN  <<[row |-> r, msg |-> "e"]>> \o ErrorsOf(S \ {r})

ResultsOf(S) == [Results0 EXCEPT !.errors = ErrorsOf(S), !.skipped = Cardinality(S)]

SummaryCalls ==
    { Call(fn, ResultsOf(S)) : fn \in {"import_cron", "import_data"},
                               S \in SUBSET (1..MaxFailedRows) }

YyyywwCalls ==
    { Call("parse_yyyyww_to_monday", y * 100 + w) :
        y \in FirstYear..LastYear, w \in 0..MaxWeek }

ParseYyyyww ==
    Returns("parse_yyyyww_to_monday", parse_yyyyww_to_monday(calc.arg))

FiscalCalls ==
    { Call("parse_fiscal_week_ending_to_monday", [month |-> m, day |-> d, year |-> y]) :
        m \in 0..13, d \in 0..32, y \in FirstYear..LastYear }

ParseFiscalWeekEnding ==
    Returns("parse_fiscal_week_ending_to_monday", parse_fiscal_week_ending_to_monday(calc.arg))

\* The callers pass the default 0 (revenues, units, stores) or None (the
\* per-store measures)
NumericCalls(default) ==
    { Call("parse_numeric_value", [value_str |-> l, default |-> default]) :
        l \in Literals(MaxLiteral) }

PercentageCalls == { Call("parse_percentage", l) : l \in Literals(MaxLiteral) }

ParseNumeric ==
    Returns("parse_numeric_value", parse_numeric_value(calc.arg.value_str, calc.arg.default))

ParsePercentage == Returns("parse_percentage", parse_percentage(calc.arg))

QueryCalls ==
    { Call(fn, [import_method |-> v[1], on_file |-> v[2], warehouse |-> v[3]]) :
        fn \in {"netsuite_query", "faire_query"},
        v \in {"all", "incremental"} \X (SUBSET QueryDates) \X (SUBSET QueryDates) }

NetsuiteQuery ==
    Returns("netsuite_query",
            netsuite_query(calc.arg.import_method, calc.arg.on_file, calc.arg.warehouse))

FaireQuery ==
    Returns("faire_query",
            faire_query(calc.arg.import_method, calc.arg.on_file, calc.arg.warehouse))

CronSummary == Returns("import_cron", import_cron_response(FALSE, calc.arg))

PageSummary == Returns("import_data", import_page(calc.arg))

-----------------------------------------------------------------------------
(* Specifications *)

Init ==
    /\ db = InitStore
    /\ sess = InitStore
    /\ run = NoRun
    /\ upload = NoUpload
    /\ snap = InitStore
    /\ log = <<>>
    /\ prev = NoPrev
    /\ nruns = 0
    /\ nrows = 0
    /\ nlinks = 0
    /\ calc = NoCalc
    /\ linked = NoLink
    /\ race = NoRace

\* Imports and triage operations in any order, one at a time
Next ==
    \/ UploadCsv(FALSE, ProviderHeaderSets)
    \/ CsvRow
    \/ CsvFinish
    \/ StartWarehouse("netsuite", FALSE)
    \/ StartWarehouse("faire", FALSE)
    \/ NetsuiteRow
    \/ FaireRow
    \/ WarehouseFinish
    \/ SpinsUpload
    \/ SpinsRow
    \/ SpinsFinish
    \/ Return
    \/ link_item

Spec == Init /\ [][Next]_vars

\* Spreadsheet uploads with every variant of the header row, over files of
\* sample rows
NextCsv ==
    \/ UploadCsv(FALSE, HeaderSets)
    \/ CsvSampleRow
    \/ CsvFinish
    \/ Return

SpecCsv == Init /\ [][NextCsv]_vars

\* Import runs only, one at a time, with the rows of each run recorded; a
\* finished live import can be followed by a second import of the same source
NextReplay ==
    \/ UploadCsv(TRUE, ProviderHeaderSets)
    \/ CsvRow
    \/ CsvFinish
    \/ StartWarehouse("netsuite", TRUE)
    \/ StartWarehouse("faire", TRUE)
    \/ NetsuiteRow
    \/ FaireRow
    \/ WarehouseFinish
    \/ Return
    \/ Replay

SpecReplay == Init /\ [][NextReplay]_vars

\* Spreadsheet imports of files of sample rows, with the rows recorded; an
\* alias can be added before a finished live import is followed by a second
\* import of the same source
NextRelink ==
    \/ UploadCsv(TRUE, ProviderHeaderSets)
    \/ CsvSampleRow
    \/ CsvFinish
    \/ Return
    \/ create_channel_item
    \/ Replay

SpecRelink == Init /\ [][NextRelink]_vars

\* Warehouse imports, of a warehouse that may fail to answer
NextWarehouse ==
    \/ StartWarehouse("netsuite", FALSE)
    \/ StartWarehouse("faire", FALSE)
    \/ WarehouseUnavailable
    \/ NetsuiteRow
    \/ FaireRow
    \/ WarehouseFinish
    \/ Return

SpecWarehouse == Init /\ [][NextWarehouse]_vars

\* Imports of valid rows, recorded, in which the database can refuse one write
NextPersist ==
    \/ UploadCsv(TRUE, ProviderHeaderSets)
    \/ CsvSampleRow
    \/ CsvRowRefused
    \/ RowPendingRollback
    \/ CsvFinish
    \/ CsvCommitRefused
    \/ StartWarehouse("netsuite", TRUE)
    \/ StartWarehouse("faire", TRUE)
    \/ NetsuiteRow
    \/ FaireRow
    \/ WarehouseRowRefused
    \/ WarehouseFinish
    \/ Return

SpecPersist == Init /\ [][NextPersist]_vars

\* The summaries of imports with any set of failed rows
InitSummary == Quiet /\ calc \in SummaryCalls

NextSummary ==
    \/ CronSummary
    \/ PageSummary

SpecSummary == InitSummary /\ [][NextSummary]_vars

\* The queries of the warehouse imports, for any content of the warehouse
\* and of the fact table
InitQuery == Quiet /\ calc \in QueryCalls

NextQuery ==
    \/ NetsuiteQuery
    \/ FaireQuery

SpecQuery == InitQuery /\ [][NextQuery]_vars

\* Two imports that run at the same time, their steps interleaved
NextRace ==
    \/ \E t \in 1..2 : RaceLookup(t)
    \/ \E t \in 1..2 : RaceInsert(t)
    \/ \E t \in 1..2 : RaceCommit(t)
    \/ \E t \in 1..2 : RaceRollback(t)

SpecRace == Init /\ [][NextRace]_vars

\* Spreadsheet and Netsuite imports of sample rows, and the triage of the
\* unlinked facts
NextTriage ==
    \/ UploadCsv(FALSE, ProviderHeaderSets)
    \/ CsvSampleRow
    \/ CsvFinish
    \/ StartWarehouse("netsuite", FALSE)
    \/ NetsuiteSampleRow
    \/ WarehouseFinish
    \/ Return
    \/ link_item

SpecTriage == Init /\ [][NextTriage]_vars

\* The normalizers applied to the literals of a source
InitParse ==
    /\ Quiet
    /\ \/ calc \in YyyywwCalls
       \/ calc \in FiscalCalls
       \/ calc \in NumericCalls(0)
       \/ calc \in NumericCalls(NULL)
       \/ calc \in PercentageCalls

NextParse ==
    \/ ParseYyyyww
    \/ ParseFiscalWeekEnding
    \/ ParseNumeric
    \/ ParsePercentage

SpecParse == InitParse /\ [][NextParse]_vars

-----------------------------------------------------------------------------
(* Properties *)

\* A recorded live import has ended (the response is not yet returned)
LiveRunEnded ==
    /\ run.rec
    /\ ~run.dry
    /\ run.phase = "done"
    /\ run.fmt # NULL

\* The ordinal the handler gives to the i-th row it reads
Ordinal(i) == IF run.kind = "csv" THEN i + FIRST_ROW_NUM - 1 ELSE i

\* C1: importing the same source twice in a row, live, is idempotent: every
\* row processed successfully by the first run creates nothing in the second
\* run (it is counted as updated), and the number of fact rows after the
\* second run is the number after the first; spreadsheet and warehouse
\* imports, rows without item code included.
Idempotence ==
    (run.replay /\ run.phase = "done") =>
        /\ \A i \in 1..Len(log) :
              prev.log[i].ok => /\ log[i].created = 0
                                /\ log[i].updated = 1
        /\ NumFacts(db) = prev.nfacts

ValidRowsOf(kind, fmt) ==
    CASE kind = "csv" -> ValidRows(fmt)
      [] kind = "netsuite" -> NetsuiteValidRows
      [] kind = "faire" -> FaireValidRows

\* The committed store holds the fact of this row with the row's measures
Persisted(kind, fmt, row) ==
    CASE kind = "csv" ->
            \E f \in db.facts :
                /\ f.date = row.date /\ f.channel = ChannelOf(fmt, row.geo)
                /\ f.code = row.code /\ f.customer = NoId
                /\ f.rev = row.m /\ f.units = row.m
      [] kind = "netsuite" ->
            \E f \in db.nsfacts, it \in db.items :
                /\ it.id = f.item /\ it.code = row.code
                /\ f.date = row.date /\ f.rcode = row.rcode
                /\ f.rev = row.m /\ f.units = row.m
      [] kind = "faire" ->
            \E f \in db.ffacts, it \in db.items :
                /\ it.id = f.item /\ it.code = row.code
                /\ f.date = row.date
                /\ (row.cust = NULL) = (f.customer = NoId)
                /\ f.rev = row.m /\ f.units = row.m

\* A later row of the run writes the same date and item code
Overwritten(i) ==
    \E j \in (i + 1)..Len(log) :
        /\ log[j].row.date = log[i].row.date
        /\ log[j].row.code = log[i].row.code

\* C2: in a live import run in which exactly one row has an invalid date and
\* every other row is valid, the fact of every other row is persisted when
\* the run ends, whether the bad row comes before or after it.
PartialFailureIsolation ==
    ( /\ LiveRunEnded
      /\ run.readable
      /\ Cardinality({ i \in 1..Len(log) : log[i].row.date = BadLit }) = 1
      /\ \A i \in 1..Len(log) :
            log[i].row.date # BadLit => log[i].row \in ValidRowsOf(run.kind, run.fmt) )
    => \A i \in 1..Len(log) :
          (log[i].row.date # BadLit /\ ~Overwritten(i))
              => Persisted(run.kind, run.fmt, log[i].row)

\* C3: after a live import run has finished, every row counted in skipped
\* has exactly one committed ImportError record, with the row's ordinal,
\* raw payload and message; none is lost to a rollback, none recorded twice.
ErrorsAreDurable ==
    LiveRunEnded =>
        /\ run.res.skipped = Len(run.res.errors)
        /\ \A i \in 1..Len(log) :
              LET recorded == { e \in db.errors \ snap.errors : e.row = Ordinal(i) }
              IN  IF log[i].ok THEN recorded = {}
                  ELSE /\ Cardinality(recorded) = 1
                       /\ \A e \in recorded :
                             /\ e.payload = log[i].row
                             /\ \E k \in 1..Len(run.res.errors) :
                                   /\ run.res.errors[k].row = e.row
                                   /\ run.res.errors[k].msg = e.msg

\* The formats whose required headers are all among the normalized headers
\* of the upload
MatchingFormats(headers) ==
    { f \in Formats : \A c \in Required(f) :
        \E h \in headers : h.text = c /\ h.form # "bom" }

\* C4: when the uploaded header set matches none of the four schemas, the
\* import is rejected before any row is read: nothing is written, pending or
\* committed, and the store is exactly as before the upload.
UnrecognizedIsRejected ==
    (upload.headers # {} /\ MatchingFormats(upload.headers) = {}) =>
        /\ run.phase = "done"
        /\ run.n = 0
        /\ run.res = Results0
        /\ db = snap
        /\ sess = snap

UnrecognizedIsRejectedWitness ==
    /\ upload.headers = Raw("lower", walmart_headers \ {"item_name"})
    /\ run.kind = "csv"
    /\ run.phase = "done"
    /\ db = snap
    /\ NumFacts(db) > NumFacts(InitStore)

DetectionOrder == <<"walmart", "target", "cvs", "kehe">>

\* C5: detect_csv_format returns the first format, in the order Walmart,
\* Target, CVS, KeHe, whose required headers are all among the normalized
\* headers (extra columns allowed), and unrecognized exactly when there is none.
DetectsFirstMatch ==
    upload.headers # {} =>
        LET hits == { i \in 1..Len(DetectionOrder) :
                        DetectionOrder[i] \in MatchingFormats(upload.headers) }
        IN  IF hits = {} THEN upload.verdict = NULL
            ELSE /\ upload.verdict \in Formats
                 /\ \E i \in hits : /\ upload.verdict = DetectionOrder[i]
                                    /\ \A j \in hits : i <= j

DetectsFirstMatchWitness ==
    /\ {"target", "kehe"} \subseteq MatchingFormats(upload.headers)
    /\ "walmart" \notin MatchingFormats(upload.headers)
    /\ upload.verdict = "target"
    /\ run.phase = "rows"

\* C6: a dry-run import never commits: while it runs and when it has ended
\* the committed facts, dimension entities and ImportError records are those
\* from before the run, whatever the rows (failing rows, rows creating
\* dimension entities).
DryRunNeverCommits ==
    (run.kind # "idle" /\ run.dry) => db = snap

DryRunNeverCommitsWitness ==
    /\ run.dry
    /\ run.kind = "netsuite"
    /\ run.phase = "done"
    /\ run.res.skipped > 0
    /\ run.res.created > 0
    /\ sess.errors # db.errors
    /\ sess.items # db.items
    /\ db = snap

\* C7: after any sequence of import runs, no two committed fact rows share
\* (date, channel, item, customer) when the item is set, nor (date, channel,
\* raw channel code, customer) when it is unset; an absent customer is a
\* value of the key.  The same for the two warehouse fact tables.
FactKeysUnique ==
    /\ \A f, g \in db.facts :
          f # g =>
            /\ (f.item # NoId /\ g.item # NoId) =>
                  <<f.date, f.channel, f.item, f.customer>>
                      # <<g.date, g.channel, g.item, g.customer>>
            /\ (f.item = NoId /\ g.item = NoId) =>
                  <<f.date, f.channel, f.code, f.customer>>
                      # <<g.date, g.channel, g.code, g.customer>>
    /\ \A f, g \in db.nsfacts :
          f # g => <<f.date, f.channel, f.item, f.customer>>
                      # <<g.date, g.channel, g.item, g.customer>>
    /\ \A f, g \in db.ffacts :
          f # g => <<f.date, f.item, f.customer>> # <<g.date, g.item, g.customer>>

FactKeysUniqueWitness ==
    /\ run.replay
    /\ run.kind = "csv"
    /\ run.phase = "done"
    /\ \E i \in 1..Len(log) :
          /\ prev.log[i].created = 1
          /\ log[i].updated = 1
          /\ \E f \in db.facts :
                /\ f.item = NoId /\ f.customer = NoId
                /\ f.code = log[i].row.code /\ f.date = log[i].row.date
                /\ f.rev = log[i].row.m
    /\ NumFacts(db) = prev.nfacts

\* What the running import has written: the session while rows are read, the
\* committed store once the run has ended
Written == IF run.phase = "done" THEN db ELSE sess

\* The store holds the unlinked fact of this spreadsheet row
UnlinkedFact(s, fmt, row) ==
    \E f \in s.facts :
        /\ f.item = NoId /\ f.brand = NoId /\ f.customer = NoId
        /\ f.date = row.date /\ f.channel = ChannelOf(fmt, row.geo)
        /\ f.code = row.code

\* C8: a spreadsheet row whose channel code matches no alias and no item
\* code is not dropped and is not a row error: it is counted as processed,
\* it leaves a fact with item unset that records the raw channel code, and a
\* later import of the same row finds that fact again (nothing is created).
UnlinkedFactPreserved ==
    (run.kind = "csv" /\ run.rec /\ run.readable /\ ~run.dry) =>
        \A i \in 1..Len(log) :
            ( /\ log[i].row \in ValidRows(run.fmt)
              /\ Unresolvable(Written, ChannelOf(run.fmt, log[i].row.geo), log[i].row.code) )
            => /\ log[i].ok
               /\ log[i].created + log[i].updated = 1
               /\ UnlinkedFact(Written, run.fmt, log[i].row)
               /\ run.replay => log[i].created = 0

\* C9: two rows of one import with the same date and channel, no customer,
\* both unresolvable, with different raw channel codes, yield two distinct
\* fact rows, each with its own code and its own measures; the second never
\* overwrites the first.  All four spreadsheet formats.
UnlinkedFactsDistinct ==
    ( /\ run.kind = "csv" /\ run.rec /\ run.readable /\ ~run.dry
      /\ \A k \in 1..Len(log) : log[k].ok )
    => \A i, j \in 1..Len(log) :
          LET ri == log[i].row
              rj == log[j].row
              channel_id == ChannelOf(run.fmt, ri.geo)
          IN  ( /\ i < j
                /\ ri.date = rj.date
                /\ channel_id = ChannelOf(run.fmt, rj.geo)
                /\ ri.code # rj.code
                /\ Unresolvable(Written, channel_id, ri.code)
                /\ Unresolvable(Written, channel_id, rj.code) )
              => \E f, g \in Written.facts :
                    /\ f # g
                    /\ f.item = NoId /\ g.item = NoId
                    /\ f.date = ri.date /\ g.date = rj.date
                    /\ f.channel = channel_id /\ g.channel = channel_id
                    /\ f.code = ri.code /\ g.code = rj.code
                    /\ ~Overwritten(i) => (f.rev = ri.m /\ f.units = ri.m)
                    /\ ~Overwritten(j) => (g.rev = rj.m /\ g.units = rj.m)

\* C10: after any sequence of import runs and link operations, every fact
\* row whose item is set has the brand of that item, in the spreadsheet fact
\* table and in the two warehouse fact tables.
BrandFollowsItem ==
    \A f \in db.facts \cup db.nsfacts \cup db.ffacts :
        f.item # NoId => \E it \in db.items : it.id = f.item /\ it.brand = f.brand

\* C11: when a spreadsheet source was imported while a row's item was
\* unresolved and is imported again after an alias for the row's code was
\* added, the second pass updates the fact of the first pass: once it has
\* ended, the store does not hold the row's unlinked fact beside the linked
\* one.
RelinkUpdatesFact ==
    (run.replay /\ run.kind = "csv" /\ run.phase = "done") =>
        \A i \in 1..Len(log) :
            (prev.log[i].unlinked /\ log[i].ok /\ ~log[i].unlinked) =>
                ~UnlinkedFact(db, run.fmt, log[i].row)

\* C12: a live warehouse import commits only at a batch boundary: while the
\* rows of the first batch of 100 are being read, nothing of the run is
\* committed yet.
CommitsOnlyAtBatchBoundary ==
    ( /\ run.kind \in {"netsuite", "faire"}
      /\ ~run.dry
      /\ run.phase = "rows"
      /\ run.n < BATCH_SIZE )
    => db = snap

\* C13: when the warehouse answers the query with a transient failure the
\* fetcher tries again: an import never ends on a transient failure after a
\* single attempt.
FetchRetriesTransient ==
    (run.failure \in Transient) => run.attempts > 1

\* C14: when the warehouse connection or query fails, the run fails before
\* any row is processed: no row is read, nothing is written (the session and
\* the committed store are those from before the run) and the caller gets an
\* error outcome, not a summary of counts.
WarehouseFailureIsClean ==
    (run.failure # NULL) =>
        /\ run.phase = "done"
        /\ run.n = 0
        /\ db = snap
        /\ sess = snap
        /\ import_cron_response(run.raised, run.res).status = "error"
        /\ import_data_response(run.raised, run.res).results = NULL

WarehouseFailureIsCleanWitness ==
    /\ run.kind = "netsuite"
    /\ run.failure \in Transient
    /\ run.phase = "done"
    /\ db # InitStore
    /\ db.errors # {}

YearOf(date) ==
    CHOOSE y \in (FirstYear - 2)..(LastYear + 2) : Date(y, 1, 1) <= date /\ date < Date(y + 1, 1, 1)

\* The ISO calendar: a week belongs to the year of its Thursday, and its
\* number is the rank of that Thursday among the Thursdays of the year
IsoYear(date) == YearOf(date - weekday(date) + 3)

IsoWeek(date) ==
    LET thursday == date - weekday(date) + 3
    IN  ((thursday - Date(YearOf(thursday), 1, 1)) \div 7) + 1

\* December 28th is always in the last ISO week of its year
WeeksOfIsoYear(y) == IsoWeek(Date(y, 12, 28))

\* C16: for every year Y and every week W of Y's ISO calendar,
\* parse_yyyyww_to_monday gives the Monday of ISO week W of Y, which is the
\* Monday of the week of January 4th plus (W-1)*7 days; 202401 gives
\* 2024-01-01 and 202405 gives 2024-01-29.
YyyywwIsIsoMonday ==
    ( /\ calc.done
      /\ calc.fn = "parse_yyyyww_to_monday"
      /\ (calc.arg % 100) \in 1..WeeksOfIsoYear(calc.arg \div 100) )
    => LET Y == calc.arg \div 100
           W == calc.arg % 100
           jan4 == Date(Y, 1, 4)
       IN  /\ calc.val.ok
           /\ weekday(calc.val.v) = 0
           /\ IsoYear(calc.val.v) = Y
           /\ IsoWeek(calc.val.v) = W
           /\ calc.val.v = (jan4 - weekday(jan4)) + (W - 1) * 7
           /\ (calc.arg = 202401) => calc.val.v = Date(2024, 1, 1)
           /\ (calc.arg = 202405) => calc.val.v = Date(2024, 1, 29)

YyyywwIsIsoMondayWitness ==
    /\ calc.done
    /\ calc.fn = "parse_yyyyww_to_monday"
    /\ calc.arg = 202653
    /\ WeeksOfIsoYear(2026) = 53
    /\ calc.val.v = Date(2026, 12, 28)

\* C17: parse_fiscal_week_ending_to_monday gives the week-ending date minus
\* 6 days, and that date is the Monday of the week that ends on the given
\* date; the ending date 01-11-2025 gives 2025-01-05.
FiscalWeekStartsMonday ==
    ( /\ calc.done
      /\ calc.fn = "parse_fiscal_week_ending_to_monday"
      /\ calc.arg.month \in 1..12
      /\ calc.arg.day \in 1..DaysInMonth(calc.arg.year, calc.arg.month) )
    => LET ending == Date(calc.arg.year, calc.arg.month, calc.arg.day)
       IN  /\ calc.val.ok
           /\ calc.val.v = ending - 6
           /\ weekday(calc.val.v) = 0
           /\ (calc.arg = [month |-> 1, day |-> 11, year |-> 2025])
                  => calc.val.v = Date(2025, 1, 5)

\* The literal is a number once the currency symbol, the separators and the
\* sign are taken away
WritesNumber(literal) ==
    LET bare == without(literal, {"$", ",", " "})
    IN  Digits(IF bare # <<>> /\ Head(bare) = "-" THEN Tail(bare) ELSE bare)

\* C18: no normalizer maps a malformed literal to a plausible value: a
\* numeric field that is not empty and does not write a number, and a YYYYWW
\* code whose week is not a week of its year, are failures that name the
\* literal, not a default value nor a date of another year.
MalformedLiteralFails ==
    /\ ( /\ calc.done
         /\ calc.fn = "parse_numeric_value"
         /\ strip(calc.arg.value_str) # <<>>
         /\ ~WritesNumber(calc.arg.value_str) )
       => (~calc.val.ok /\ calc.val.msg = calc.arg.value_str)
    /\ ( /\ calc.done
         /\ calc.fn = "parse_yyyyww_to_monday"
         /\ (calc.arg % 100) \notin 1..WeeksOfIsoYear(calc.arg \div 100) )
       => ~calc.val.ok

\* C19: after a row whose write the database refused, the session is usable
\* again before the next row, the loop goes on and the final commit succeeds:
\* every later row, all of them valid, is processed successfully and its
\* fact is persisted when the live run ends; for the spreadsheet processors
\* and the warehouse imports alike.
WriteFailureIsIsolated ==
    ( /\ run.refused # 0
      /\ run.readable
      /\ \A i \in (run.refused + 1)..Len(log) :
            log[i].row \in ValidRowsOf(run.kind, run.fmt) )
    => /\ run.phase = "rows" => ~run.inactive
       /\ ~run.aborted
       /\ ~run.raised
       /\ \A i \in (run.refused + 1)..Len(log) :
             /\ log[i].ok
             /\ (run.phase = "done" /\ ~run.dry /\ ~Overwritten(i))
                   => Persisted(run.kind, run.fmt, log[i].row)

\* The rows of the run that were processed successfully
SuccessfulRows == { log[j].row : j \in { k \in 1..Len(log) : log[k].ok } }

\* The committed store holds a dimension entity that only this row names:
\* one that was not there when the run began and that no successful row of
\* the run names
LeftBehind(row) ==
    \/ /\ \A it \in snap.items : it.code # row.code
       /\ \A r \in SuccessfulRows : r.code # row.code
       /\ \E it \in db.items : it.code = row.code
    \/ /\ run.kind = "netsuite"
       /\ \A c \in snap.nscodes : c.code # row.rcode
       /\ \A r \in SuccessfulRows : r.rcode # row.rcode
       /\ \E c \in db.nscodes : c.code = row.rcode
    \/ /\ run.kind = "netsuite"
       /\ \A b \in snap.brands : b.name # row.brand /\ b.code # row.brand
       /\ \A r \in SuccessfulRows : r.brand # row.brand
       /\ \E b \in db.brands : b.name = row.brand
    \/ /\ run.kind = "faire"
       /\ \A c \in snap.customers : c.name # row.cust
       /\ \A r \in SuccessfulRows : r.cust # row.cust
       /\ \E c \in db.customers : c.name = row.cust

\* C20: when a live warehouse import has ended, a row that ended in a row
\* error has left no dimension entity of its own (retailer-code mapping,
\* brand, item, customer) in the committed store, and the facts of the
\* successful rows read before it are persisted.
FailedRowLeavesOnlyItsError ==
    (LiveRunEnded /\ ~run.replay /\ run.kind \in {"netsuite", "faire"}) =>
        \A i \in 1..Len(log) :
            ~log[i].ok =>
                /\ ~LeftBehind(log[i].row)
                /\ \A j \in 1..(i - 1) :
                      (log[j].ok /\ ~Overwritten(j))
                          => Persisted(run.kind, run.fmt, log[j].row)

\* The entities of the session that a warehouse row names
ItemsNamed(row) == { it \in sess.items : it.code = row.code }

BrandsNamed(row) == { b \in sess.brands : b.name = row.brand \/ b.code = row.brand }

CustomersNamed(row) ==
    { c \in sess.customers : c.name = row.cust /\ c.channel = FAIRE_CHANNEL }

\* Rows i and j of the run name the same item, brand, retailer code and
\* customer
SameEntities(i, j) ==
    /\ log[i].row.code = log[j].row.code
    /\ log[i].row.brand = log[j].row.brand
    /\ run.kind = "netsuite" => log[i].row.rcode = log[j].row.rcode
    /\ run.kind = "faire" => log[i].row.cust = log[j].row.cust

\* C21: within one warehouse import run, the item, the brand and the
\* customer that the successful rows name exist once each in the session,
\* however many rows name them, and a row that names the same entities as an
\* earlier successful row creates no entity (it writes one fact only).
CreatedOnce ==
    (run.kind \in {"netsuite", "faire"} /\ run.rec /\ ~run.replay) =>
        \A j \in 1..Len(log) :
            log[j].ok =>
                /\ Cardinality(ItemsNamed(log[j].row)) = 1
                /\ Cardinality(BrandsNamed(log[j].row)) = 1
                /\ (run.kind = "faire" /\ log[j].row.cust # NULL)
                      => Cardinality(CustomersNamed(log[j].row)) = 1
                /\ \A i \in 1..(j - 1) :
                      (log[i].ok /\ SameEntities(i, j))
                          => log[j].created + log[j].updated = 1

\* The spreadsheet row that the loop has just handled
JustHandled ==
    /\ run.kind = "csv"
    /\ run.rec
    /\ run.phase = "rows"
    /\ Len(log) > 0

LastRow == log[Len(log)]

\* The aliases of the session with this channel and channel code
AliasesByCode(channel_id, channel_code) ==
    { ci \in sess.citems : ci.channel = channel_id /\ ci.code = channel_code }

\* C22: after a spreadsheet row that resolved to an item has been processed,
\* the channel has an alias with the row's channel code (the next row with
\* that code resolves by alias lookup alone), and the item of that alias has
\* exactly one alias on the channel.
AliasFollowsRow ==
    (JustHandled /\ LastRow.ok /\ ~LastRow.unlinked) =>
        LET channel_id == ChannelOf(run.fmt, LastRow.row.geo)
            named == AliasesByCode(channel_id, LastRow.row.code)
        IN  /\ named # {}
            /\ \A ci \in named :
                  Cardinality({ cj \in sess.citems :
                                  cj.channel = channel_id /\ cj.item = ci.item }) = 1

\* A Walmart row with the internal code of item 1 has been processed while
\* the committed alias of item 1 on the channel carries another code: the
\* alias of the session now carries the row's code
AliasFollowsRowWitness ==
    /\ JustHandled
    /\ LastRow.ok
    /\ ~LastRow.unlinked
    /\ run.fmt = "walmart"
    /\ LastRow.row.code = "a"
    /\ \E ci \in db.citems : ci.channel = WALMART_CHANNEL /\ ci.item = 1 /\ ci.code = "c"
    /\ \E ci \in sess.citems : ci.channel = WALMART_CHANNEL /\ ci.item = 1 /\ ci.code = "a"

\* The session holds the fact of this spreadsheet row, carrying this item
FactCarries(row, item_id) ==
    \E f \in sess.facts :
        /\ f.date = row.date
        /\ f.channel = ChannelOf(run.fmt, row.geo)
        /\ f.code = row.code
        /\ f.rev = row.m
        /\ f.item = item_id

\* C23: the internal code is tried before the channel aliases: after a
\* spreadsheet row whose code is the internal code of an item has been
\* processed, the fact of the row carries that item, also when an alias of
\* another item on the channel has the same code.
InternalCodeWins ==
    (JustHandled /\ LastRow.ok) =>
        \A it \in sess.items :
            it.code = LastRow.row.code => FactCarries(LastRow.row, it.id)

\* C24: once link_item has linked a channel code of a channel to an item,
\* the committed store holds no unlinked fact with that channel and code,
\* neither right after the link nor after any later import, and the facts
\* with that channel and code that carry the item carry the item's brand.
LinkIsLasting ==
    (linked # NoLink) =>
        \A f \in db.facts :
            (f.channel = linked.channel /\ f.code = linked.code) =>
                /\ f.item # NoId
                /\ f.item = linked.item =>
                      \E it \in db.items : it.id = f.item /\ it.brand = f.brand

\* C25: a warehouse import executes one query; in incremental mode with a
\* fact on file the query returns the warehouse rows dated on or after the
\* latest fact date, and in full mode, or with no fact on file, it returns
\* every row of the warehouse.
QueryCoversHistory ==
    (calc.done /\ calc.fn \in {"netsuite_query", "faire_query"}) =>
        LET on_file == calc.arg.on_file
            warehouse == calc.arg.warehouse
        IN  /\ calc.val.queries = 1
            /\ calc.val.dates =
                  IF calc.arg.import_method = "incremental" /\ on_file # {}
                  THEN { d \in warehouse : \E e \in on_file :
                            /\ \A g \in on_file : g <= e
                            /\ d >= e }
                  ELSE warehouse

\* C26: when two imports run at the same time and name the same dimension
\* entity that does not exist yet, at most one row with that natural key is
\* ever committed, whatever the interleaving of their lookups, inserts and
\* commits.
OneRowPerNaturalKey ==
    \A r1, r2 \in race.rows : r1.entity = r2.entity => r1 = r2

\* Both imports looked the entity up before either had committed it; the
\* first committed its row and the insert of the second was refused
OneRowPerNaturalKeyWitness ==
    \E t, u \in 1..2 :
        /\ t # u
        /\ race.tx[u].failed
        /\ [entity |-> race.tx[u].want, by |-> t] \in race.rows

\* An import run that read its source and came to its end
RunCompleted ==
    /\ run.phase = "done"
    /\ run.fmt # NULL
    /\ ~run.raised
    /\ ~run.aborted

\* C27: at the end of every import run that completes, each row consumed
\* was counted once, as processed or as skipped: processed + skipped is the
\* number of rows consumed, skipped is the number of error messages
\* collected, and created + updated is at least processed.
RowsCountedOnce ==
    RunCompleted =>
        /\ run.res.processed + run.res.skipped = run.n
        /\ run.res.skipped = Len(run.res.errors)
        /\ run.res.created + run.res.updated >= run.res.processed

\* A spreadsheet or Netsuite run of two rows has completed, one row
\* processed and the other skipped
RowsCountedOnceWitness ==
    /\ RunCompleted
    /\ run.kind \in {"csv", "netsuite"}
    /\ run.res.processed = 1
    /\ run.res.skipped = 1
    /\ run.n = 2

\* The messages of the rows that failed for want of a required field
MissingField == {"missing date", "missing code", "missing geography"}

\* C28: detector and row processors agree on the header: in an upload whose
\* header set was classified, no row that has a value in every required
\* column fails with a missing-field error, whatever the letter case, the
\* surrounding whitespace or the byte-order mark of the headers.  Every row
\* of the files explored has a value in every required column.
HeadersAgree ==
    (run.kind = "csv" /\ run.fmt # NULL) =>
        \A i \in 1..Len(run.res.errors) : run.res.errors[i].msg \notin MissingField

\* C29: alias resolution is unambiguous: after any sequence of spreadsheet
\* imports, warehouse imports and link_item operations, no two committed
\* aliases of the same channel carry the same channel code.
AliasCodesUnique ==
    \A ci, cj \in db.citems :
        (ci.channel = cj.channel /\ ci.code = cj.code) => ci.item = cj.item

\* uq_sellthrough_unique read as the natural key of the linked facts
LinkedKeysUnique(facts) ==
    \A f, g \in facts :
        (f # g /\ f.item # NoId /\ g.item # NoId) =>
            <<f.date, f.channel, f.item, f.customer>>
                # <<g.date, g.channel, g.item, g.customer>>

\* C30: link_item keeps the natural key of the facts unique: when no two
\* linked facts share (date, channel, item, customer) before it links the
\* unlinked facts of a (channel, code) to an item, none do after it, also
\* when a linked fact of that item already exists on one of the dates.
LinkKeepsKeysUnique ==
    [][(linked' # linked /\ LinkedKeysUnique(db.facts))
            => LinkedKeysUnique(db'.facts)]_vars

====
